---- MODULE Spec2Model ----
(***************************************************************************)
(* Dashboard layout persistence and widget lifecycle of the Inthisone      *)
(* dashboard (src/app/main_window.py, src/app/db.py, src/app/              *)
(* plugin_manager.py, src/modules/*/widget.py, src/main.py).               *)
(*                                                                         *)
(* Strings are sequences of tokens: a token is a maximal run of letters    *)
(* and digits ("Custom", "d0", "2") or one separator (" " or "_").  The    *)
(* code only ever joins pieces with a separator between them, so every     *)
(* string has one token sequence, and str.startswith of a prefix that      *)
(* ends in a separator is the prefix relation on token sequences.          *)
(***************************************************************************)
EXTENDS Integers, Sequences, FiniteSets, TLC

VARIABLES
    phase,      \* position of main(): "start", "constructed", "running", "closed", "exited"
    tabs,       \* MainWindow.tab_widget: sequence of [title, docks]
    current,    \* tab_widget.currentIndex() + 1 (0 when there is no tab)
    db,         \* table widget_settings: <<widget_id, key>> -> value
    session,    \* number of the current run of main()
    nops,       \* user operations performed so far
    log,        \* what the last restore_layout / save_layout call observed
    lock,       \* DatabaseManager._lock: 0 (free) or the owning thread
    thr,        \* the threads calling DatabaseManager: thread -> call in progress
    kv,         \* the key-value map the callers of DatabaseManager expect
    reg,        \* PluginManager: plugins, the Widgets menu, position in load_plugins
    ing         \* DataIngestManager, the REST API tables and the posted signal calls

vars == <<phase, tabs, current, db, session, nops, log, lock, thr, kv, reg, ing>>

----------------------------------------------------------------------------
(* Bounds of the model *)

MaxTabs == 2
MaxDocks == 2
MaxOps == 2
MaxSessions == 2
MaxDbOps == 3
MaxDocSize == 3
MaxFill == 1
MaxRequests == 3
MaxRetries == 3

----------------------------------------------------------------------------
(* Strings *)

Space == " "
Under == "_"

\* str.lower() of one token
LowerTok(t) ==
    CASE t = "Clock" -> "clock"
      [] t = "Custom" -> "custom"
      [] t = "List" -> "list"
      [] t = "Code" -> "code"
      [] t = "Viewer" -> "viewer"
      [] t = "Web" -> "web"
      [] t = "View" -> "view"
      [] t = "Calculator" -> "calculator"
      [] t = "Tree" -> "tree"
      [] t = "Dashboard" -> "dashboard"
      [] t = "Foo" -> "foo"
      [] t = "Bar" -> "bar"
      [] OTHER -> t

\* title.lower().replace(' ', '_')
Sanitize(s) == [i \in 1..Len(s) |-> IF s[i] = Space THEN Under ELSE LowerTok(s[i])]

\* str(n) for the small numbers the model reaches
NumTok(n) ==
    CASE n = 0 -> "0" [] n = 1 -> "1" [] n = 2 -> "2" [] n = 3 -> "3"
      [] n = 4 -> "4" [] n = 5 -> "5" [] n = 6 -> "6" [] n = 7 -> "7"
      [] n = 8 -> "8" [] OTHER -> "9"

\* s.startswith(p)
StartsWith(s, p) == Len(s) >= Len(p) /\ SubSeq(s, 1, Len(p)) = p

\* a + "_" + b and a + " " + b
JoinUnder(a, b) == a \o <<Under>> \o b
JoinSpace(a, b) == a \o <<Space>> \o b

K_clock == <<"clock">>
K_custom_list == <<"custom", "_", "list">>
K_code_viewer == <<"code", "_", "viewer">>
K_web_view == <<"web", "_", "view">>
K_calculator == <<"calculator">>
K_tree_list == <<"tree", "_", "list">>
K_treelist == <<"treelist">>
K_wysiwyg_editor == <<"wysiwyg", "_", "editor">>
K_main_window == <<"main", "_", "window">>

----------------------------------------------------------------------------
(* DatabaseManager: table widget_settings, PRIMARY KEY (widget_id, key) *)

\* "no row" / Python None
None == [t |-> "none"]

\* query_one("SELECT value FROM widget_settings WHERE widget_id = ? AND
\* key = ?"): the row as a tuple, <<>> for no row
QueryOne(d, widget_id, key) ==
    IF <<widget_id, key>> \in DOMAIN d THEN <<d[<<widget_id, key>>]>> ELSE <<>>

\* row[0] if row else default
RowOr(row, default) == IF row # <<>> THEN row[1] ELSE default

\* get_widget_setting
DbGet(d, widget_id, key, default) == RowOr(QueryOne(d, widget_id, key), default)

\* a write that ignores the widget_id column
DbSetAnyScope(d, widget_id, key, value) ==
    [p \in DOMAIN d \cup {<<widget_id, key>>} |->
        IF p[2] = key THEN value ELSE d[p]]

\* set_widget_setting: INSERT OR REPLACE INTO widget_settings
DbSet(d, widget_id, key, value) ==
    [p \in DOMAIN d \cup {<<widget_id, key>>} |->
        IF p = <<widget_id, key>> THEN value ELSE d[p]]

EmptyDb == [p \in {} |-> None]

\* Python truthiness of a stored value, as "if saved_data:" tests it
Truthy(v) ==
    CASE v.t = "none" -> FALSE
      [] v.t = "text" -> v.s # <<>>
      [] OTHER -> TRUE

\* a Python str that is not a JSON document
Text(s) == [t |-> "text", s |-> s]

----------------------------------------------------------------------------
(* json.dumps / json.loads.  A JSON text is kept as the Python value it    *)
(* parses to; a Python value is a record tagged py: "list" (items),        *)
(* "dict" (plus one field per key present), "scalar" (a number, true or    *)
(* null), "empty" ({} or ""), "str" (a non-empty str or dict at top level).*)

PyList(items) == [py |-> "list", items |-> items]
PyScalar == [py |-> "scalar"]
PyEmpty == [py |-> "empty"]
PyStr == [py |-> "str"]

\* json.dumps(value)
JsonDumps(value) == [t |-> "json", v |-> value]

\* json.loads(x): JSONDecodeError on a str that is no JSON, TypeError on None
JsonLoads(x) ==
    IF x.t = "json" THEN [exc |-> FALSE, v |-> x.v] ELSE [exc |-> TRUE, v |-> PyScalar]

\* dict.get(key, default)
Get(d, key, default) == IF key \in DOMAIN d THEN d[key] ELSE default

\* len(v) raises TypeError
LenRaises(v) == v.py = "scalar"

\* Python truthiness of a parsed value
PyTruthy(v) ==
    CASE v.py = "list" -> v.items # <<>>
      [] v.py = "empty" -> FALSE
      [] OTHER -> TRUE

----------------------------------------------------------------------------
(* bytes.hex() / bytes.fromhex() *)

HexDigits == <<"0", "1", "2", "3", "4", "5", "6", "7", "8", "9",
               "a", "b", "c", "d", "e", "f">>
UpperDigits == <<"0", "1", "2", "3", "4", "5", "6", "7", "8", "9",
                 "A", "B", "C", "D", "E", "F">>

RECURSIVE Hex(_)
\* state.data().hex(): two lower-case digits per byte
Hex(bytes) ==
    IF bytes = <<>> THEN <<>>
    ELSE <<HexDigits[(bytes[1] \div 16) + 1], HexDigits[(bytes[1] % 16) + 1]>>
            \o Hex(Tail(bytes))

IsHexDigit(c) == \E i \in 1..16 : HexDigits[i] = c \/ UpperDigits[i] = c
DigitVal(c) == (CHOOSE i \in 1..16 : HexDigits[i] = c \/ UpperDigits[i] = c) - 1

RECURSIVE FromHexOk(_)
FromHexOk(h) ==
    IF h = <<>> THEN <<>>
    ELSE <<DigitVal(h[1]) * 16 + DigitVal(h[2])>> \o FromHexOk(SubSeq(h, 3, Len(h)))

\* bytes.fromhex(h): ValueError on an odd length or a non-hex digit
FromHex(h) ==
    IF Len(h) % 2 = 1 \/ \E i \in 1..Len(h) : ~IsHexDigit(h[i])
    THEN [exc |-> TRUE, bytes |-> <<>>]
    ELSE [exc |-> FALSE, bytes |-> FromHexOk(h)]

----------------------------------------------------------------------------
(* PluginManager.plugins after load_plugins, for the widget classes the    *)
(* model constructs.  The other built-in classes (markdown viewer, REST    *)
(* table, weather, stocks, statistics) set a fixed widget_id in __init__   *)
(* and have no save_state: on every path below they behave as the web      *)
(* view does.  The WYSIWYG editor follows the code viewer's branches.      *)

\* the dict register_plugin() returns: every one has "name" equal to "title"
Descriptor(cls, title) == [widget_class |-> cls, name |-> title, title |-> title]

\* a descriptor that declares "module_name"
DeclaredAs(descriptor, module_name) ==
    [f \in DOMAIN descriptor \cup {"module_name"} |->
        IF f = "module_name" THEN module_name ELSE descriptor[f]]

\* register_plugin() of modules/<directory>/widget.py
RegisterPlugin(k) ==
    CASE k = K_clock -> Descriptor("ClockWidget", <<"Clock">>)
      [] k = K_custom_list -> Descriptor("CustomListWidget", <<"Custom", " ", "List">>)
      [] k = K_code_viewer -> Descriptor("CodeViewerWidget", <<"Code", " ", "Viewer">>)
      [] k = K_web_view -> Descriptor("WebViewWidget", <<"Web", " ", "View">>)
      [] k = K_calculator ->
            DeclaredAs(Descriptor("CalculatorWidget", <<"Calculator">>), K_calculator)
      [] OTHER ->
            DeclaredAs(Descriptor("TreeListWidget", <<"Tree", " ", "List">>), K_tree_list)

\* load_plugins: the directories of modules/ that hold a widget.py
ScannedKeys == {K_clock, K_custom_list, K_code_viewer, K_web_view, K_calculator, K_tree_list}

\* modules.tree_list.register_plugins(): the family holds the tree list descriptor
TreeListFamily == <<RegisterPlugin(K_tree_list)>>

\* widget_class.__name__.lower().replace("widget", "")
ClassKey(cls) ==
    CASE cls = "TreeListWidget" -> K_treelist
      [] cls = "ClockWidget" -> K_clock
      [] OTHER -> <<cls>>

\* _load_builtin_plugins: the keys it stores, the menu entries it leaves
BuiltinKeys ==
    {K_clock, K_custom_list, K_web_view, K_code_viewer, K_calculator}
        \cup {ClassKey(TreeListFamily[i].widget_class) : i \in 1..Len(TreeListFamily)}

plugins ==
    [k \in ScannedKeys \cup BuiltinKeys |->
        IF k = K_treelist THEN TreeListFamily[1] ELSE RegisterPlugin(k)]

\* widgets_menu after load_plugins: _load_builtin_plugins clears it first
MenuKeys == BuiltinKeys

----------------------------------------------------------------------------
(* PluginManager.load_plugins step by step: the directory scan in the order *)
(* os.listdir gives, then _load_builtin_plugins.  reg.overwritten is the    *)
(* set of keys assigned while already present, reg.printed what was         *)
(* printed, reg.family the (key, descriptor) pairs the family loops stored. *)

K_scientific_calculator == <<"scientific", "_", "calculator">>

\* modules/calculator/scientific_widget.py register_plugin()
ScientificCalculator ==
    DeclaredAs(Descriptor("ScientificCalculatorWidget", <<"Scientific", " ", "Calculator">>),
               K_scientific_calculator)

\* modules.calculator.register_plugins()
CalculatorFamily == <<RegisterPlugin(K_calculator), ScientificCalculator>>

\* the singly registered built-ins the model follows, in the order of the code
BuiltinSingles == <<K_clock, K_custom_list, K_web_view, K_code_viewer>>

\* plugin_info.get("module_name") or plugin_info["name"].lower().replace(" ", "_")
FamilyKey(plugin_info) ==
    IF "module_name" \in DOMAIN plugin_info /\ plugin_info.module_name # <<>>
    THEN plugin_info.module_name
    ELSE Sanitize(plugin_info.name)

RegInit ==
    [pc |-> "scan", todo |-> ScannedKeys, next |-> 1, plugins |-> <<>>, menu |-> <<>>,
     family |-> <<>>, overwritten |-> {}, printed |-> <<>>]

\* self.plugins[module_name] = plugin_info; self._add_widget_to_menu(...)
Put(r, module_name, plugin_info) ==
    [r EXCEPT !.plugins = (module_name :> plugin_info) @@ r.plugins,
              !.menu = Append(r.menu, module_name),
              !.overwritten = IF module_name \in DOMAIN r.plugins
                              THEN r.overwritten \cup {module_name}
                              ELSE r.overwritten]

RegStep(r) ==
    /\ reg' = r
    /\ UNCHANGED <<phase, tabs, current, db, session, nops, log, lock, thr, kv, ing>>

\* _load_plugin(item) for one directory of modules/
LoadPlugin ==
    /\ reg.pc = "scan"
    /\ \E item \in reg.todo :
          RegStep([Put(reg, item, RegisterPlugin(item)) EXCEPT
                      !.todo = reg.todo \ {item},
                      !.printed = Append(reg.printed,
                                         [msg |-> "Loaded plugin",
                                          name |-> RegisterPlugin(item).name])])

\* _load_builtin_plugins: self.widgets_menu.clear()
ClearMenu ==
    /\ reg.pc = "scan"
    /\ reg.todo = {}
    /\ RegStep([reg EXCEPT !.pc = "builtin", !.menu = <<>>])

\* self.plugins["clock"] = plugin_info and the other single registrations
LoadBuiltin ==
    /\ reg.pc = "builtin"
    /\ reg.next <= Len(BuiltinSingles)
    /\ RegStep([Put(reg, BuiltinSingles[reg.next], RegisterPlugin(BuiltinSingles[reg.next]))
                   EXCEPT !.next = reg.next + 1])

BuiltinDone ==
    /\ reg.pc = "builtin"
    /\ reg.next > Len(BuiltinSingles)
    /\ RegStep([reg EXCEPT !.pc = "calculators", !.next = 1])

Stored(r, module_name, plugin_info) ==
    [Put(r, module_name, plugin_info) EXCEPT
        !.family = Append(r.family, [key |-> module_name, info |-> plugin_info]),
        !.next = r.next + 1]

\* for plugin_info in modules.calculator.register_plugins()
LoadCalculator ==
    /\ reg.pc = "calculators"
    /\ reg.next <= Len(CalculatorFamily)
    /\ RegStep(Stored(reg, FamilyKey(CalculatorFamily[reg.next]), CalculatorFamily[reg.next]))

CalculatorsDone ==
    /\ reg.pc = "calculators"
    /\ reg.next > Len(CalculatorFamily)
    /\ RegStep([reg EXCEPT !.pc = "tree_lists", !.next = 1])

\* for plugin_info in modules.tree_list.register_plugins()
LoadTreeList ==
    /\ reg.pc = "tree_lists"
    /\ reg.next <= Len(TreeListFamily)
    /\ RegStep(Stored(reg, ClassKey(TreeListFamily[reg.next].widget_class),
                      TreeListFamily[reg.next]))

TreeListsDone ==
    /\ reg.pc = "tree_lists"
    /\ reg.next > Len(TreeListFamily)
    /\ RegStep([reg EXCEPT !.pc = "done"])

----------------------------------------------------------------------------
(* DataIngestManager and the RestApiTableWidget objects *)

\* the RestApiTableWidget objects the model follows and the dashboards they
\* can be added to
Tables == {1, 2}
Dashboards == {1, 2}

\* f"rest_api_table_{id(self)}": id(self) is the address of the object
SourceId(w) == <<"rest_api_table", "_", IF w = 1 THEN "140001" ELSE "140002">>

\* the thread that calls ingest_pdf / ingest_html / ingest_api: where it is in
\* the call (pc), the source_id passed, the tasks the call has put so far and
\* what the last call returned
NoCall == [pc |-> "idle", source_id |-> <<>>, puts |-> 0, returned |-> "none"]

\* one call of _fetch_with_retry: the arguments, retry_count, the requests
\* sent (attempts), the time.sleep arguments so far (waits, as fractions
\* <<numerator, denominator>>) and how the call ended
NoFetch ==
    [pc |-> "idle", method |-> "GET", max_retries |-> 0, backoff_factor |-> <<1, 1>>,
     retry_count |-> 0, attempts |-> 0, waits |-> <<>>, result |-> "none"]

\* status of a table: "none" (not constructed), "open" (in a dashboard of the
\* tab widget), "closed" (its dashboard was removed by close_tab), "deleting"
\* (deleteLater called), "deleted" (destroyed)
IngInit ==
    [status |-> [w \in Tables |-> "none"],
     tab |-> [w \in Tables |-> 1],
     open_tabs |-> Dashboards,
     task_queue |-> <<>>,
     active_tasks |-> {},
     fetching |-> <<>>,
     posted |-> <<>>,
     shown |-> [w \in Tables |-> 0],
     requests |-> 0,
     running |-> TRUE,
     call |-> NoCall,
     retry |-> NoFetch]

IngOther == <<phase, tabs, current, db, session, nops, log, lock, thr, kv, reg>>

\* ingest_api(source_id, url): skipped while a task of that source is active
IngestApi(r, source_id) ==
    IF source_id \in r.active_tasks THEN r
    ELSE [r EXCEPT !.task_queue = Append(@, source_id),
                   !.active_tasks = @ \cup {source_id},
                   !.requests = @ + 1]

\* RestApiTableWidget.refresh (current_url is never empty: it has a default)
Refresh(r, w) == IngestApi(r, SourceId(w))

\* a test that lets every call through
IngestTestNone(r, source_id) ==
    [r EXCEPT !.call = [pc |-> "put", source_id |-> source_id, puts |-> 0,
                        returned |-> "none"]]

\* ingest_*(source_id, ...) statement by statement, for a caller that runs
\* beside the worker thread.  First "if source_id in self.active_tasks:
\* return False"
IngestTest(r, source_id) ==
    IF source_id \in r.active_tasks
    THEN [r EXCEPT !.call = [pc |-> "idle", source_id |-> source_id, puts |-> 0,
                             returned |-> "False"]]
    ELSE [r EXCEPT !.call = [pc |-> "put", source_id |-> source_id, puts |-> 0,
                             returned |-> "none"]]

\* self.task_queue.put((source_id, kind, params))
IngestPut(r) ==
    [r EXCEPT !.task_queue = Append(@, r.call.source_id),
              !.call.pc = "mark",
              !.call.puts = @ + 1]

\* self.active_tasks[source_id] = kind; return True
IngestMark(r) ==
    [r EXCEPT !.active_tasks = @ \cup {r.call.source_id},
              !.requests = @ + 1,
              !.call.pc = "idle",
              !.call.returned = "True"]

\* a widget calls ingest_pdf, ingest_html or ingest_api
QCall ==
    /\ ing.call.pc = "idle"
    /\ ing.requests < MaxRequests
    /\ \E w \in Tables : ing' = IngestTest(ing, SourceId(w))
    /\ UNCHANGED IngOther

QPut ==
    /\ ing.call.pc = "put"
    /\ ing' = IngestPut(ing)
    /\ UNCHANGED IngOther

QMark ==
    /\ ing.call.pc = "mark"
    /\ ing' = IngestMark(ing)
    /\ UNCHANGED IngOther

\* the methods _fetch_with_retry sends, and one it does not
Methods == {"GET", "POST", "PUT", "DELETE"}
PassedMethods == Methods \cup {"PATCH"}

\* backoff factors: the default 1.5 and 2
Factors == {<<3, 2>>, <<2, 1>>}

RECURSIVE Pow(_, _)
Pow(b, n) == IF n = 0 THEN 1 ELSE b * Pow(b, n - 1)

\* backoff_factor ** retry_count
Backoff(backoff_factor, retry_count) ==
    <<Pow(backoff_factor[1], retry_count), Pow(backoff_factor[2], retry_count)>>

\* _fetch_with_retry(url, method, headers, data, max_retries, backoff_factor)
FetchCall ==
    /\ ing.retry.pc \in {"idle", "done"}
    /\ \E method \in PassedMethods, max_retries \in 0..MaxRetries, backoff_factor \in Factors :
          ing' = [ing EXCEPT !.retry = [NoFetch EXCEPT !.pc = "loop", !.method = method,
                                                      !.max_retries = max_retries,
                                                      !.backoff_factor = backoff_factor]]
    /\ UNCHANGED IngOther

\* while retry_count < max_retries (falling out of the loop returns None)
FetchLoop ==
    /\ ing.retry.pc = "loop"
    /\ ing' = IF ing.retry.retry_count < ing.retry.max_retries
              THEN [ing EXCEPT !.retry.pc = "request"]
              ELSE [ing EXCEPT !.retry.pc = "done", !.retry.result = "None"]
    /\ UNCHANGED IngOther

\* a handler that sleeps after every failed attempt
AfterFailureSleeping(f) == [f EXCEPT !.pc = "sleep"]

\* lines 198-201 after retry_count += 1: "if retry_count >= max_retries:
\* return None"
AfterFailure(f) ==
    IF f.retry_count >= f.max_retries
    THEN [f EXCEPT !.pc = "done", !.result = "None"]
    ELSE [f EXCEPT !.pc = "sleep"]

\* the body of the try: an unsupported method raises ValueError, which the
\* handler does not catch; a request returns a response or raises a
\* requests.RequestException
Request(f, raises) ==
    IF f.method \notin Methods THEN [f EXCEPT !.pc = "done", !.result = "ValueError"]
    ELSE IF raises
    THEN AfterFailure([f EXCEPT !.attempts = @ + 1, !.retry_count = @ + 1])
    ELSE [f EXCEPT !.attempts = @ + 1, !.pc = "done", !.result = "response"]

FetchRequest ==
    /\ ing.retry.pc = "request"
    /\ \E raises \in BOOLEAN : ing' = [ing EXCEPT !.retry = Request(ing.retry, raises)]
    /\ UNCHANGED IngOther

\* time.sleep(backoff_factor ** retry_count)
FetchSleep ==
    /\ ing.retry.pc = "sleep"
    /\ ing' = [ing EXCEPT !.retry.waits =
                              Append(@, Backoff(ing.retry.backoff_factor,
                                                ing.retry.retry_count)),
                          !.retry.pc = "loop"]
    /\ UNCHANGED IngOther

\* add_widget with RestApiTableWidget: __init__ connects _on_api_data_ready
\* to api_data_ready and ends with self.refresh()
IngAddWidget ==
    /\ ing.running
    /\ ing.requests < MaxRequests
    /\ \E w \in Tables : \E t \in ing.open_tabs :
          /\ ing.status[w] = "none"
          /\ ing' = Refresh([ing EXCEPT !.status[w] = "open", !.tab[w] = t], w)
    /\ UNCHANGED IngOther

\* refresh_timer.timeout or the Refresh button: the timer of a table keeps
\* running after close_tab removed its dashboard
IngRefresh ==
    /\ ing.running
    /\ ing.requests < MaxRequests
    /\ \E w \in Tables :
          /\ ing.status[w] \in {"open", "closed"}
          /\ SourceId(w) \notin ing.active_tasks
          /\ ing' = Refresh(ing, w)
    /\ UNCHANGED IngOther

\* _worker_thread: task_queue.get, then _process_api starts fetching
IngTake ==
    /\ ing.running
    /\ ing.fetching = <<>>
    /\ ing.task_queue # <<>>
    /\ ing' = [ing EXCEPT !.fetching = Head(ing.task_queue), !.task_queue = Tail(@)]
    /\ UNCHANGED IngOther

RECURSIVE CallsTo(_, _, _)
\* api_data_ready.emit from the worker thread: one queued call per table
\* that is connected (constructed and not destroyed)
CallsTo(r, source_id, ws) ==
    IF ws = {} THEN <<>>
    ELSE IF r.status[CHOOSE w \in ws : \A v \in ws : w <= v] \in {"open", "closed", "deleting"}
    THEN <<[kind |-> "call", to |-> CHOOSE w \in ws : \A v \in ws : w <= v,
            source_id |-> source_id]>>
         \o CallsTo(r, source_id, ws \ {CHOOSE w \in ws : \A v \in ws : w <= v})
    ELSE CallsTo(r, source_id, ws \ {CHOOSE w \in ws : \A v \in ws : w <= v})

\* _process_api after _fetch_with_retry: status 200 with JSON emits, any
\* other outcome only logs; the task leaves active_tasks
ProcessApi(r, ok) ==
    [r EXCEPT !.posted = IF ok THEN @ \o CallsTo(r, r.fetching, Tables) ELSE @,
              !.active_tasks = @ \ {r.fetching},
              !.fetching = <<>>]

IngFetched ==
    /\ ing.fetching # <<>>
    /\ \E ok \in BOOLEAN : ing' = ProcessApi(ing, ok)
    /\ UNCHANGED IngOther

\* RestApiTableWidget._on_api_data_ready(source_id, data)
OnApiDataReady(r, w, source_id) ==
    IF StartsWith(source_id, SourceId(w))
    THEN [r EXCEPT !.shown[w] = @ + 1]
    ELSE r

NotTo(w, e) == e.to # w

\* the deferred delete of a dock reaches the event loop: the table is
\* destroyed and the calls still posted to it are dropped with it
Destroy(r, w) ==
    [r EXCEPT !.status[w] = "deleted",
              !.posted = SelectSeq(Tail(r.posted), LAMBDA e : NotTo(w, e))]

\* the event loop of the main thread takes the next posted event
IngDeliver ==
    /\ ing.running
    /\ ing.posted # <<>>
    /\ ing' = IF Head(ing.posted).kind = "delete"
              THEN Destroy(ing, Head(ing.posted).to)
              ELSE OnApiDataReady([ing EXCEPT !.posted = Tail(@)],
                                  Head(ing.posted).to, Head(ing.posted).source_id)
    /\ UNCHANGED IngOther

\* close_tab(index): removeTab takes the dashboard out of the tab widget; the
\* dashboard and its docks are not deleted
IngCloseTab ==
    /\ ing.running
    /\ Cardinality(ing.open_tabs) > 1
    /\ \E t \in ing.open_tabs :
          ing' = [ing EXCEPT !.open_tabs = @ \ {t},
                             !.status = [w \in Tables |->
                                            IF ing.status[w] = "open" /\ ing.tab[w] = t
                                            THEN "closed" ELSE ing.status[w]]]
    /\ UNCHANGED IngOther

\* _handle_dock_close answered Yes: dock.deleteLater()
IngDeleteDock ==
    /\ ing.running
    /\ \E w \in Tables :
          /\ ing.status[w] = "open"
          /\ ing' = [ing EXCEPT !.status[w] = "deleting",
                                !.posted = Append(@, [kind |-> "delete", to |-> w,
                                                      source_id |-> <<>>])]
    /\ UNCHANGED IngOther

\* the window is closed: app.exec() returns and main calls
\* ingest_manager.stop(); the worker takes no new task and no posted event
\* is delivered any more, a fetch in progress goes on
IngStop ==
    /\ ing.running
    /\ ing' = [ing EXCEPT !.running = FALSE]
    /\ UNCHANGED IngOther

----------------------------------------------------------------------------
(* Widgets and docks *)

Geom(x, y, w, h) == [x |-> x, y |-> y, width |-> w, height |-> h]

\* the geometry Qt gives a dock that was never moved
QtDefaultGeom == Geom(0, 0, 640, 480)

\* self.columns = [self.default_column]; self.items = []
DefaultSt == [columns |-> <<"title">>, items |-> <<>>,
              content |-> <<>>, language |-> <<"python">>]

RightDockWidgetArea == 2

NewDock(name, cls, wid, title, wtitle, area, st) ==
    [name |-> name, cls |-> cls, wid |-> wid, title |-> title, wtitle |-> wtitle,
     area |-> area, floating |-> FALSE, hidden |-> FALSE, geom |-> QtDefaultGeom,
     st |-> st]

\* json.loads(saved_columns), "if loaded_columns:"
ColumnsLoaded(loaded) ==
    IF ~loaded.exc /\ PyTruthy(loaded.v) THEN loaded.v.items ELSE DefaultSt.columns

\* CustomListWidget.load_columns, given the stored value
ColumnsFrom(saved) ==
    IF Truthy(saved) THEN ColumnsLoaded(JsonLoads(saved)) ELSE DefaultSt.columns

LoadColumns(d, wid) == ColumnsFrom(DbGet(d, wid, "columns", None))

ItemsLoaded(loaded) == IF loaded.exc THEN <<>> ELSE loaded.v.items

\* CustomListWidget.load_items, given the stored value
ItemsFrom(saved, items) ==
    IF Truthy(saved) THEN ItemsLoaded(JsonLoads(saved)) ELSE items

LoadItems(d, wid, items) == ItemsFrom(DbGet(d, wid, "items", None), items)

\* CustomListWidget.save_columns, save_items
SaveColumns(d, wid, columns) == DbSet(d, wid, "columns", JsonDumps(PyList(columns)))
SaveItems(d, wid, items) == DbSet(d, wid, "items", JsonDumps(PyList(items)))

\* the end of CustomListWidget.__init__: save_columns(), save_items()
CustomListSaved(d, wid, columns, items) ==
    [db |-> SaveItems(SaveColumns(d, wid, columns), wid, items),
     wid |-> wid,
     st |-> [DefaultSt EXCEPT !.columns = columns, !.items = items]]

CustomListLoaded(d, wid) ==
    CustomListSaved(d, wid, LoadColumns(d, wid), LoadItems(d, wid, <<>>))

\* CustomListWidget.__init__(db, ingest, list_title, widget_id)
CustomListInit(d, list_title, widget_id) ==
    CustomListLoaded(d, IF widget_id # <<>> THEN widget_id
                        ELSE JoinUnder(K_custom_list, Sanitize(list_title)))

Languages == {<<"python">>, <<"javascript">>}

\* the "if title:" block of CodeViewerWidget.__init__: setPlainText and
\* change_language write back what was read
CodeViewerLoaded(d, wid, content, language) ==
    [db |-> IF language.t = "text" /\ language.s \in Languages
            THEN DbSet(IF Truthy(content) THEN DbSet(d, wid, "content", content) ELSE d,
                       wid, "language", language)
            ELSE IF Truthy(content) THEN DbSet(d, wid, "content", content) ELSE d,
     wid |-> wid,
     st |-> [DefaultSt EXCEPT
                !.content = IF Truthy(content) THEN content.s ELSE <<>>,
                !.language = IF language.t = "text" /\ language.s \in Languages
                             THEN language.s ELSE <<"python">>]]

CodeViewerRead(d, wid) ==
    CodeViewerLoaded(d, wid, DbGet(d, wid, "content", Text(<<>>)),
                     DbGet(d, wid, "language", Text(<<"python">>)))

\* CodeViewerWidget.__init__(db, ingest, title)
CodeViewerInit(d, title) == CodeViewerRead(d, JoinUnder(K_code_viewer, Sanitize(title)))

RECURSIVE TreeIdLoop(_, _, _)
\* TreeListWidget.__init__: while get_widget_setting(test_id, "test_state")
TreeIdLoop(d, test_id, counter) ==
    IF Truthy(DbGet(d, test_id, "test_state", None))
    THEN TreeIdLoop(d, JoinUnder(K_treelist, <<NumTok(counter)>>), counter + 1)
    ELSE test_id

\* TreeListWidget.__init__(db, ingest, title)
TreeListInit(d, title) ==
    [db |-> d,
     wid |-> IF title # <<>> /\ title # <<"Tree", " ", "List">>
             THEN JoinUnder(K_treelist, Sanitize(title))
             ELSE TreeIdLoop(d, K_treelist, 1),
     st |-> DefaultSt]

RECURSIVE WebIdLoop(_, _, _)
\* WebViewWidget.__init__: while get_widget_setting(self.widget_id, "url")
WebIdLoop(d, widget_id, counter) ==
    IF Truthy(DbGet(d, widget_id, "url", None))
    THEN WebIdLoop(d, JoinUnder(K_web_view, <<NumTok(counter)>>), counter + 1)
    ELSE widget_id

\* no saved url under the new id, so prompt_url; typed says whether the user
\* entered a url (load_url saves it)
WebViewPrompt(d, wid, typed) ==
    [db |-> IF typed THEN DbSet(d, wid, "url", Text(<<"https">>)) ELSE d,
     wid |-> wid, st |-> DefaultSt]

\* WebViewWidget.__init__(db, ingest)
WebViewInit(d, typed) == WebViewPrompt(d, WebIdLoop(d, K_web_view, 1), typed)

\* widget_class(db, ingest) for the classes constructed without a title
PlainInit(cls, d, typed) ==
    CASE cls = "WebViewWidget" -> WebViewInit(d, typed)
      [] cls = "TreeListWidget" -> TreeListInit(d, <<>>)
      [] cls = "ClockWidget" -> [db |-> d, wid |-> K_clock, st |-> DefaultSt]
      [] OTHER -> [db |-> d, wid |-> <<>>, st |-> DefaultSt]   \* calculator: widget_id = None

\* "widget.widget_id = value": a property setter on the custom list (stores
\* the id and reloads), a property setter on the tree list (loads state and
\* stores nothing), a plain attribute elsewhere
SetWidgetId(cls, d, w, value) ==
    CASE cls = "TreeListWidget" -> w
      [] cls = "CustomListWidget" ->
            IF value # <<>>
            THEN [w EXCEPT !.wid = value,
                           !.st.columns = LoadColumns(d, value),
                           !.st.items = LoadItems(d, value, w.st.items)]
            ELSE w
      [] OTHER -> [w EXCEPT !.wid = value]

HasSaveState(cls) == cls \in {"ClockWidget", "TreeListWidget", "CalculatorWidget"}
HasRestoreState(cls) == cls \in {"ClockWidget", "CalculatorWidget"}

ClockState == [t |-> "repr", v |-> <<"UTC">>]
TreeState == JsonDumps([py |-> "dict", items |-> PyList(<<>>)])

\* widget.save_state(): the calculator calls db_manager.set_widget_data,
\* which DatabaseManager does not have (AttributeError)
SaveState(cls, d, wid) ==
    CASE wid = <<>> -> [db |-> d, exc |-> FALSE]
      [] cls = "ClockWidget" -> [db |-> DbSet(d, wid, "state", ClockState), exc |-> FALSE]
      [] cls = "TreeListWidget" -> [db |-> DbSet(d, wid, "test_state", TreeState), exc |-> FALSE]
      [] cls = "CalculatorWidget" -> [db |-> d, exc |-> TRUE]
      [] OTHER -> [db |-> d, exc |-> FALSE]

----------------------------------------------------------------------------
(* MainWindow: dashboards and add_widget.  A workspace value w is the      *)
(* record [tabs, current, db].                                             *)

\* f"Dashboard {self.tab_widget.count() + 1}"
DefaultDashboardTitle(w) == <<"Dashboard", " ", NumTok(Len(w.tabs) + 1)>>

\* addTab(dashboard, title); setCurrentIndex(index)
AddTab(w, title) ==
    [w EXCEPT !.tabs = Append(w.tabs, [title |-> title, docks |-> <<>>]),
              !.current = Len(w.tabs) + 1]

\* add_dashboard: typed is the dialog's answer (<<>>: cancelled or blank); the
\* dialog is shown only when the window is visible
AddDashboard(w, vis, typed) ==
    AddTab(w, IF vis /\ typed # <<>> THEN typed ELSE DefaultDashboardTitle(w))

DockNames(dashboard) == {dashboard.docks[i].name : i \in 1..Len(dashboard.docks)}

RECURSIVE DockNameLoop(_, _, _, _)
\* while dock_name in existing_names: dock_name = f"{base_name}_{counter}"
DockNameLoop(existing, base_name, dock_name, counter) ==
    IF dock_name \in existing
    THEN DockNameLoop(existing, base_name, JoinUnder(base_name, <<NumTok(counter)>>),
                      counter + 1)
    ELSE [dock_name |-> dock_name, counter |-> counter]

\* the token f"d{dashboard_index}"
DTok(i) == CASE i = 0 -> "d0" [] i = 1 -> "d1" [] i = 2 -> "d2" [] i = 3 -> "d3" [] OTHER -> "d4"

\* an allocation that keeps the base name whatever the dashboard holds
AllocateDockNameBase(existing, base_name, dock_name, counter) ==
    [dock_name |-> dock_name, counter |-> counter]

\* add_widget lines 245-259
AllocateDockName(existing, base_name, dock_name, counter) ==
    DockNameLoop(existing, base_name, dock_name, counter)

\* lines 326-348: the dock is attached, then widget.save_state() runs; the
\* result is the workspace, the position of the new dock in the current
\* dashboard and whether an exception left the call
Attach(w, dock, saved) ==
    [w |-> [w EXCEPT !.tabs[w.current].docks = Append(@, dock), !.db = saved.db],
     dock |-> Len(w.tabs[w.current].docks) + 1,
     exc |-> saved.exc]

\* lines 318-348 for the widget built
DockWidget(w, d, widget_class, widget, dock_name, display_title, widget_area) ==
    Attach(w,
           NewDock(dock_name, widget_class, widget.wid, display_title, display_title,
                   widget_area, widget.st),
           IF HasSaveState(widget_class) THEN SaveState(widget_class, d, widget.wid)
           ELSE [db |-> d, exc |-> FALSE])

\* lines 314-316: if hasattr(widget, 'widget_id') and widget_name != "tree_list"
AssignId(w, built, widget_class, widget_name, widget_id, dock_name, display_title, widget_area) ==
    DockWidget(w, built.db, widget_class,
               IF widget_name # K_tree_list
               THEN SetWidgetId(widget_class, built.db,
                                [wid |-> built.wid, st |-> built.st], widget_id)
               ELSE [wid |-> built.wid, st |-> built.st],
               dock_name, display_title, widget_area)

\* lines 264-312: the constructor call and the widget_id of each branch
Construct(w, widget_class, widget_name, display_title, counter, dock_name, widget_area, typed) ==
    CASE widget_name = K_tree_list ->
            AssignId(w, [TreeListInit(w.db, display_title) EXCEPT
                            !.wid = <<"treelist", "_", DTok(w.current - 1), "_",
                                      NumTok(counter)>>],
                     widget_class, widget_name, widget_name, dock_name, display_title,
                     widget_area)
      [] widget_name = K_custom_list ->
            AssignId(w, CustomListInit(w.db, display_title, <<>>), widget_class,
                     widget_name, JoinUnder(K_custom_list, Sanitize(display_title)),
                     dock_name, display_title, widget_area)
      [] widget_name = K_code_viewer ->
            AssignId(w, CodeViewerInit(w.db, display_title), widget_class,
                     widget_name, JoinUnder(K_code_viewer, Sanitize(display_title)),
                     dock_name, display_title, widget_area)
      [] OTHER ->
            AssignId(w, PlainInit(widget_class, w.db, typed), widget_class,
                     widget_name, widget_name, dock_name, display_title, widget_area)

\* line 262: display_title = title if counter == 1 else f"{title} {counter}"
Titled(w, nc, widget_class, widget_name, widget_title, widget_area, typed) ==
    Construct(w, widget_class, widget_name,
              IF nc.counter = 1 THEN widget_title
              ELSE JoinSpace(widget_title, <<NumTok(nc.counter)>>),
              nc.counter, nc.dock_name, widget_area, typed)

\* lines 245-259: a dock name unique in the current dashboard
Named(w, widget_class, widget_name, widget_title, widget_area, typed) ==
    Titled(w, AllocateDockName(DockNames(w.tabs[w.current]), <<"dock", "_">> \o widget_name,
                               <<"dock", "_">> \o widget_name, 1),
           widget_class, widget_name, widget_title, widget_area, typed)

\* add_widget(widget_class, widget_name, widget_title, widget_area)
AddWidget(w, vis, widget_class, widget_name, widget_title, widget_area, typed) ==
    Named(IF w.current = 0 THEN AddDashboard(w, vis, <<>>) ELSE w,
          widget_class, widget_name, widget_title, widget_area, typed)

----------------------------------------------------------------------------
(* QMainWindow.saveState / restoreState: the dock layout as bytes, two per *)
(* dock: a code of the dock's objectName, and its area, floating and       *)
(* hidden flags.  restoreState applies an entry to the dock of that name.  *)

Digits == {"0", "1", "2", "3", "4", "5", "6", "7", "8", "9"}
DigitOf(tok) == CHOOSE n \in 0..9 : NumTok(n) = tok

KindCode(widget_name) ==
    CASE widget_name = K_clock -> 1
      [] widget_name = K_custom_list -> 2
      [] widget_name = K_code_viewer -> 3
      [] widget_name = K_web_view -> 4
      [] widget_name = K_calculator -> 5
      [] widget_name = K_tree_list -> 6
      [] widget_name = K_treelist -> 7
      [] OTHER -> 0

\* one byte for an objectName "dock_<kind>" or "dock_<kind>_<n>"
NameCode(name) ==
    IF Len(name) > 4 /\ name[Len(name)] \in Digits /\ name[Len(name) - 1] = Under
    THEN KindCode(SubSeq(name, 3, Len(name) - 2)) * 16 + DigitOf(name[Len(name)])
    ELSE KindCode(SubSeq(name, 3, Len(name))) * 16

FlagsByte(dock) ==
    dock.area * 4 + (IF dock.floating THEN 2 ELSE 0) + (IF dock.hidden THEN 1 ELSE 0)

RECURSIVE QtSaveState(_)
\* dashboard.saveState().data()
QtSaveState(docks) ==
    IF docks = <<>> THEN <<>>
    ELSE <<NameCode(docks[1].name), FlagsByte(docks[1])>> \o QtSaveState(Tail(docks))

\* the flags byte of the first entry of bytes for the name code, -1 if none
FlagsFor(bytes, code) ==
    IF \E j \in 1..(Len(bytes) \div 2) : bytes[2 * j - 1] = code
    THEN bytes[2 * (CHOOSE j \in 1..(Len(bytes) \div 2) :
                       /\ bytes[2 * j - 1] = code
                       /\ \A k \in 1..(j - 1) : bytes[2 * k - 1] # code)]
    ELSE 0 - 1

WithFlags(dock, f) ==
    IF f < 0 THEN dock
    ELSE [dock EXCEPT !.area = f \div 4, !.floating = (f % 4) \div 2 = 1,
                      !.hidden = f % 2 = 1]

\* dashboard.restoreState(QByteArray(state_data))
QtRestoreState(docks, bytes) ==
    [i \in 1..Len(docks) |-> WithFlags(docks[i], FlagsFor(bytes, NameCode(docks[i].name)))]

----------------------------------------------------------------------------
(* save_layout / save_dashboard_layout *)

\* the widget_info dict of one dock (lines 431-459)
WidgetInfo(dock) ==
    [py |-> "dict",
     module_name |-> dock.wid,
     dock_name |-> dock.name,
     title |-> IF StartsWith(dock.wid, K_custom_list) THEN dock.wtitle ELSE dock.title,
     area |-> dock.area,
     floating |-> dock.floating,
     visible |-> TRUE,
     geometry |-> dock.geom]

RECURSIVE CaptureDocks(_, _, _)
\* the loop over dashboard.findChildren(QDockWidget) from dock i on: a dock
\* whose capture raises (its position is in raising) is passed over by the
\* inner except and continue
CaptureDocks(docks, raising, i) ==
    IF i > Len(docks) THEN <<>>
    ELSE (IF i \in raising THEN <<>> ELSE <<WidgetInfo(docks[i])>>)
         \o CaptureDocks(docks, raising, i + 1)

\* state_hex: saveState() only if widget_instances is not empty
StateHex(docks, widget_instances) ==
    IF widget_instances # <<>> THEN Hex(QtSaveState(docks)) ELSE <<>>

\* a capture whose loop ends at the first dock that raises
CaptureDashboardAborting(dashboard, raising) ==
    [py |-> "dict",
     state |-> StateHex(dashboard.docks,
                        CaptureDocks(dashboard.docks, {}, 1)),
     widgets |-> PyList(SubSeq(CaptureDocks(dashboard.docks, {}, 1), 1,
                               IF raising \cap (1..Len(dashboard.docks)) = {}
                               THEN Len(dashboard.docks)
                               ELSE (CHOOSE j \in raising \cap (1..Len(dashboard.docks)) :
                                        \A k \in raising \cap (1..Len(dashboard.docks)) :
                                           j <= k) - 1))]

\* save_dashboard_layout(dashboard) when the docks at the positions in
\* raising raise while they are captured
CaptureDashboard(dashboard, raising) ==
    [py |-> "dict",
     state |-> StateHex(dashboard.docks, CaptureDocks(dashboard.docks, raising, 1)),
     widgets |-> PyList(CaptureDocks(dashboard.docks, raising, 1))]

\* save_dashboard_layout(dashboard): {"state": state_hex, "widgets": [...]}
SaveDashboardLayout(dashboard) == CaptureDashboard(dashboard, {})

\* dashboard_info["title"] = title
WithTitle(dashboard_info, title) ==
    [py |-> "dict", state |-> dashboard_info.state, widgets |-> dashboard_info.widgets,
     title |-> title]

\* the list save_layout serialises: one dashboard_info per tab
CaptureDashboards(ts) ==
    [i \in 1..Len(ts) |-> WithTitle(SaveDashboardLayout(ts[i]), ts[i].title)]

\* the positions of the docks of tab i among the pairs <<tab, dock>> of raising
RaisingIn(raising, i) == {p[2] : p \in {q \in raising : q[1] = i}}

\* the list save_layout serialises when the captures at raising raise
CaptureDashboardsRaising(ts, raising) ==
    [i \in 1..Len(ts) |->
        WithTitle(CaptureDashboard(ts[i], RaisingIn(raising, i)), ts[i].title)]

\* save_layout while the captures of the docks at raising raise
SaveLayoutRaising(w, raising) ==
    [w EXCEPT !.db = DbSet(w.db, K_main_window, "dashboards",
                           JsonDumps(PyList(CaptureDashboardsRaising(w.tabs, raising))))]

\* the stored list of records, extended
Extended(old, dashboards) == JsonDumps(PyList(old.v.items \o dashboards))

\* a save that extends the stored list instead of replacing it
SaveLayoutAppending(w) ==
    [w EXCEPT !.db = DbSet(w.db, K_main_window, "dashboards",
                           Extended(DbGet(w.db, K_main_window, "dashboards",
                                          JsonDumps(PyList(<<>>))),
                                    CaptureDashboards(w.tabs)))]

\* save_layout: json.dumps(dashboards), one set_widget_setting
SaveLayout(w) ==
    [w EXCEPT !.db = DbSet(w.db, K_main_window, "dashboards",
                           JsonDumps(PyList(CaptureDashboards(w.tabs))))]

\* a save that stores the list after each dashboard captured
SaveLayoutFailingPartly(w, n) ==
    IF n = 0 THEN w
    ELSE [w EXCEPT !.db = DbSet(w.db, K_main_window, "dashboards",
                                JsonDumps(PyList(CaptureDashboards(SubSeq(w.tabs, 1, n)))))]

\* save_layout when an exception leaves the try body after n dashboards were
\* appended to the local list (n = the number of tabs: json.dumps raised):
\* set_widget_setting, the last call of the body, is not reached, and the
\* handler prints and returns
SaveLayoutFailing(w, n) == w

----------------------------------------------------------------------------
(* restore_dashboard_layout *)

IsDict(v) == v.py = "dict"

\* what "for x in v" yields: the items of a list, the characters or keys of a
\* non-empty str or dict (none of which is a dict), nothing for "" or {}
Iterate(v) ==
    CASE v.py = "list" -> v.items
      [] v.py = "str" -> <<PyScalar>>
      [] OTHER -> <<>>

\* lines 599-609: the base module of a saved module_name
BaseModule(module_name) ==
    CASE StartsWith(module_name, K_custom_list \o <<Under>>) -> K_custom_list
      [] StartsWith(module_name, K_code_viewer \o <<Under>>) -> K_code_viewer
      [] StartsWith(module_name, K_treelist \o <<Under>>) -> K_tree_list
      [] StartsWith(module_name, K_wysiwyg_editor \o <<Under>>) -> K_wysiwyg_editor
      [] OTHER -> module_name

\* lines 590-615: does the entry name a registered plugin (instance.get of a
\* non-dict raises, an empty module_name and an unknown base module are skipped)
Resolves(instance) ==
    /\ IsDict(instance)
    /\ Get(instance, "module_name", <<>>) # <<>>
    /\ BaseModule(instance.module_name) \in DOMAIN plugins

\* lines 632-652 and 660-680: the dock made for a custom list or tree list,
\* named from the entry's dock_name
AttachRestored(w, t, c, dock_name, widget_class, title, area) ==
    [w |-> [w EXCEPT !.tabs[t].docks =
                        Append(@, NewDock(dock_name, widget_class, c.wid, title, title,
                                          area, c.st)),
                     !.db = c.db],
     dock |-> Len(w.tabs[t].docks) + 1]

\* lines 711-725 on dock i of the current dashboard: widget_id = module_name
\* took effect as set says; restore_state(module_name, state) stores the id
RebindDock(w, i, widget_class, module_name, set) ==
    [w |-> [w EXCEPT !.tabs[w.current].docks[i].wid =
                        IF HasRestoreState(widget_class)
                           /\ Truthy(DbGet(w.db, module_name, "state", None))
                        THEN module_name ELSE set.wid,
                     !.tabs[w.current].docks[i].st = set.st],
     dock |-> i]

\* lines 693-725: a is what add_widget returned; when it raised, the entry is
\* given up (the dock add_widget attached stays)
Rebind(a, widget_class, module_name) ==
    IF a.exc THEN [w |-> a.w, dock |-> 0]
    ELSE RebindDock(a.w, a.dock, widget_class, module_name,
                    SetWidgetId(widget_class, a.w.db,
                                [wid |-> a.w.tabs[a.w.current].docks[a.dock].wid,
                                 st |-> a.w.tabs[a.w.current].docks[a.dock].st],
                                module_name))

\* lines 622-698: the three ways an entry is constructed
RestoreBuild(w, t, instance, module_name, base_module, widget_class, title, area, typed) ==
    CASE base_module = K_custom_list ->
            AttachRestored(w, t, CustomListInit(w.db, title, module_name),
                           Get(instance, "dock_name", <<"dock", "_">> \o K_custom_list),
                           widget_class, title, area)
      [] base_module = K_tree_list ->
            AttachRestored(w, t, [TreeListInit(w.db, title) EXCEPT !.wid = module_name],
                           Get(instance, "dock_name", <<"dock", "_">> \o K_tree_list),
                           widget_class, title, area)
      [] OTHER ->
            Rebind(AddWidget(w, FALSE, widget_class, base_module, title, area, typed),
                   widget_class, module_name)

\* lines 612-618: plugin_info, widget_class, title
RestoreWith(w, t, instance, base_module, plugin_info, typed) ==
    RestoreBuild(w, t, instance, instance.module_name, base_module,
                 plugin_info.widget_class,
                 Get(instance, "title", plugin_info.title),
                 Get(instance, "area", RightDockWidgetArea), typed)

\* lines 591-731 for one entry: the workspace and the position of the dock
\* appended to docks (0: the entry was skipped or its construction raised)
RestoreWidget(w, t, instance, typed) ==
    IF ~Resolves(instance) THEN [w |-> w, dock |-> 0]
    ELSE RestoreWith(w, t, instance, BaseModule(instance.module_name),
                     plugins[BaseModule(instance.module_name)], typed)

RECURSIVE RestoreWidgets(_, _, _, _, _)

\* a loop that is left at the first entry it cannot restore
StepWidgetsLeaving(r, t, instances, docks, typed) ==
    IF r.dock = 0 THEN [w |-> r.w, docks |-> docks]
    ELSE RestoreWidgets(r.w, t, Tail(instances),
                        Append(docks, [dock |-> r.dock, instance |-> instances[1]]), typed)

\* lines 700-702 and 727-731: "if dock: docks.append((dock, instance))"; an
\* entry skipped or failed is passed over and the loop goes on
StepWidgets(r, t, instances, docks, typed) ==
    RestoreWidgets(r.w, t, Tail(instances),
                   IF r.dock = 0 THEN docks
                   ELSE Append(docks, [dock |-> r.dock, instance |-> instances[1]]),
                   typed)

\* what one pass of the loop did in dashboard t: a dock was added to the
\* dashboard ("created"), an entry was appended to docks ("restored")
Noted(w, t, r) ==
    [r EXCEPT !.w.events =
        @ \o (IF Len(r.w.tabs[t].docks) > Len(w.tabs[t].docks)
              THEN <<[t |-> t, kind |-> "created"]>> ELSE <<>>)
          \o (IF r.dock # 0 THEN <<[t |-> t, kind |-> "restored"]>> ELSE <<>>)]

\* the loop over dashboard_info["widgets"] (lines 589-731)
RestoreWidgets(w, t, instances, docks, typed) ==
    IF instances = <<>> THEN [w |-> w, docks |-> docks]
    ELSE StepWidgets(Noted(w, t, RestoreWidget(w, t, instances[1], typed)),
                     t, instances, docks, typed)

\* lines 757-764: the geometry applied to a restored dock
Max(a, b) == IF a >= b THEN a ELSE b
Min(a, b) == IF a <= b THEN a ELSE b
\* a clamp that has the lower limits only
NormalizeGeometryLower(geom) ==
    Geom(Max(0, geom.x), Max(0, geom.y), Max(100, geom.width), Max(100, geom.height))

NormalizeGeometry(geom) ==
    Geom(Max(0, geom.x), Max(0, geom.y),
         Min(Max(100, geom.width), 2000), Min(Max(100, geom.height), 1200))

\* dock.isVisible(): the dock is shown and so is every ancestor
IsVisible(w, vis, t, dock) == vis /\ w.current = t /\ ~dock.hidden

IsRestored(docks, i) == \E j \in 1..Len(docks) : docks[j].dock = i

\* lines 741-750: restoreState, then setVisible(True) for what was visible
Reapply(w, vis, t, docks, bytes) ==
    [w EXCEPT !.tabs[t].docks =
        [i \in 1..Len(w.tabs[t].docks) |->
            IF IsRestored(docks, i) /\ IsVisible(w, vis, t, w.tabs[t].docks[i])
            THEN [QtRestoreState(w.tabs[t].docks, bytes)[i] EXCEPT !.hidden = FALSE]
            ELSE QtRestoreState(w.tabs[t].docks, bytes)[i]],
              !.events = Append(@, [t |-> t, kind |-> "state"])]

\* lines 738-752: bytes.fromhex may raise; "if state_data:"
ApplyBytes(w, vis, t, docks, state_data) ==
    IF state_data.exc \/ state_data.bytes = <<>> THEN w
    ELSE Reapply(w, vis, t, docks, state_data.bytes)

\* the docking state applied whether or not a widget was restored
ApplyStateAlways(w, vis, t, dashboard_info, docks) ==
    IF "state" \in DOMAIN dashboard_info /\ dashboard_info.state # <<>>
    THEN ApplyBytes(w, vis, t, docks, FromHex(dashboard_info.state))
    ELSE w

\* lines 735-752: apply the docking state
ApplyState(w, vis, t, dashboard_info, docks) ==
    IF docks # <<>> /\ "state" \in DOMAIN dashboard_info /\ dashboard_info.state # <<>>
    THEN ApplyBytes(w, vis, t, docks, FromHex(dashboard_info.state))
    ELSE w

\* lines 755-782 for one (dock, instance): geom["x"] of a geometry that lacks
\* a key raises, and the dock is then left as it is
ShowDock(dock, instance) ==
    IF "geometry" \in DOMAIN instance
    THEN IF DOMAIN instance.geometry = {"x", "y", "width", "height"}
         THEN [dock EXCEPT !.geom = NormalizeGeometry(instance.geometry), !.hidden = FALSE]
         ELSE dock
    ELSE [dock EXCEPT !.hidden = FALSE]

InstanceOf(docks, i) == docks[CHOOSE j \in 1..Len(docks) : docks[j].dock = i].instance

\* lines 754-789: geometry and visibility of the restored docks, then the
\* tab that was current is made current again
Shown(w, t, docks, current_dashboard) ==
    [w |-> [w EXCEPT !.tabs[t].docks =
                        [i \in 1..Len(w.tabs[t].docks) |->
                            IF IsRestored(docks, i)
                            THEN ShowDock(w.tabs[t].docks[i], InstanceOf(docks, i))
                            ELSE w.tabs[t].docks[i]],
                     !.current = IF current_dashboard # 0 THEN current_dashboard ELSE t],
     ndocks |-> Len(docks)]

\* lines 733-789, r being what the loop over the entries left
AfterWidgets(r, vis, t, dashboard_info, current_dashboard) ==
    Shown(ApplyState(r.w, vis, t, dashboard_info, r.docks), t, r.docks, current_dashboard)

\* lines 583-586: current_dashboard = currentWidget(); setCurrentWidget(dashboard)
Entered(w, t) ==
    [w EXCEPT !.events = Append(@, [t |-> w.current, kind |-> "entered"]),
              !.current = t]

\* the tab that is current when restore_dashboard_layout returns
Left(r) == [r EXCEPT !.w.events = Append(@, [t |-> r.w.current, kind |-> "left"])]

\* a restore that leaves the restored dashboard current
RestoreDashboardLayoutStaying(w, vis, t, dashboard_info, typed) ==
    Left(AfterWidgets(RestoreWidgets(Entered(w, t), t,
                                     Iterate(Get(dashboard_info, "widgets", PyList(<<>>))),
                                     <<>>, typed),
                      vis, t, dashboard_info, 0))

\* restore_dashboard_layout(dashboard, dashboard_info) for the tab at t
RestoreDashboardLayout(w, vis, t, dashboard_info, typed) ==
    Left(AfterWidgets(RestoreWidgets(Entered(w, t), t,
                                     Iterate(Get(dashboard_info, "widgets", PyList(<<>>))),
                                     <<>>, typed),
                      vis, t, dashboard_info, w.current))

----------------------------------------------------------------------------
(* restore_layout *)

EmptyList == JsonDumps(PyList(<<>>))

\* the stored workspace document, "[]" when there is no row
StoredDashboards(d) == DbGet(d, K_main_window, "dashboards", EmptyList)

\* the default branch entered twice (a handler that does not return)
RestoreDefaultTwice(w, vis) == AddDashboard(AddDashboard(w, vis, <<>>), vis, <<>>)

\* lines 500-510: no valid or no saved layout: one default dashboard, return
RestoreDefault(w, vis) == AddDashboard(w, vis, <<>>)

\* the fallback never taken
NoneRestoredIgnored(restored_count) == FALSE

\* line 547: if restored_count == 0
NoneRestored(restored_count) == restored_count = 0

\* a restore that puts each new tab in front of the tabs made before it
AddRestoredTabFirst(w, title) ==
    [w EXCEPT !.tabs = <<[title |-> title, docks |-> <<>>]>> \o w.tabs,
              !.current = 1]

\* line 526: addTab; the first tab of an empty tab widget becomes current
AddRestoredTab(w, title) ==
    [w EXCEPT !.tabs = Append(w.tabs, [title |-> title, docks |-> <<>>]),
              !.current = IF w.tabs = <<>> THEN 1 ELSE w.current]

Counted(r) == [w |-> r.w, counted |-> TRUE, ndocks |-> r.ndocks]

\* lines 525-538 with the tab added
RestoreInto(w, vis, dashboard_info, typed) ==
    Counted(RestoreDashboardLayout(w, vis, Len(w.tabs), dashboard_info, typed))

\* lines 519-544 for one dashboard_info: the workspace, whether the record
\* was counted, and the number of widgets restore_dashboard_layout restored
\* (.get of a non-dict and len() of a number raise before the tab is added)
RestoreRecord(w, vis, dashboard_info, typed) ==
    IF ~IsDict(dashboard_info) \/ LenRaises(Get(dashboard_info, "widgets", PyList(<<>>)))
    THEN [w |-> w, counted |-> FALSE, ndocks |-> 0]
    ELSE RestoreInto(AddRestoredTab(w, Get(dashboard_info, "title", <<"Dashboard">>)),
                     vis, dashboard_info, typed)

RECURSIVE RestoreRecords(_, _, _, _, _, _)

StepRecords(r, vis, records, restored_count, ndocks, typed) ==
    RestoreRecords(r.w, vis, Tail(records),
                   restored_count + (IF r.counted THEN 1 ELSE 0),
                   Append(ndocks, r.ndocks), typed)

\* the loop "for dashboard_info in dashboards"
RestoreRecords(w, vis, records, restored_count, ndocks, typed) ==
    IF records = <<>> THEN [w |-> w, restored_count |-> restored_count, ndocks |-> ndocks]
    ELSE StepRecords(RestoreRecord(w, vis, records[1], typed), vis, records,
                     restored_count, ndocks, typed)

\* lines 553-565: select the first tab and show every dock of it
SelectFirst(w) ==
    IF w.tabs = <<>> THEN w
    ELSE [w EXCEPT !.current = 1,
                   !.tabs[1].docks = [i \in 1..Len(w.tabs[1].docks) |->
                                         [w.tabs[1].docks[i] EXCEPT !.hidden = FALSE]]]

\* what restore_layout leaves: every statement of it is inside
\* "try ... except Exception", so nothing leaves the call (escaped)
Outcome(w, branch, restored_count, ndocks) ==
    [w |-> w, branch |-> branch, restored_count |-> restored_count, ndocks |-> ndocks,
     escaped |-> FALSE]

\* lines 546-565
AfterRecords(r, vis) ==
    IF NoneRestored(r.restored_count)
    THEN Outcome(AddDashboard(r.w, vis, <<>>), "fallback", r.restored_count, r.ndocks)
    ELSE Outcome(SelectFirst(r.w), "restored", r.restored_count, r.ndocks)

\* lines 497-565 for the value json.loads gave
RestoreLoaded(w, vis, loaded, typed) ==
    IF loaded.exc \/ LenRaises(loaded.v)
    THEN Outcome(RestoreDefault(w, vis), "invalid", 0, <<>>)
    ELSE IF ~PyTruthy(loaded.v)
    THEN Outcome(RestoreDefault(w, vis), "empty", 0, <<>>)
    ELSE AfterRecords(RestoreRecords([w EXCEPT !.tabs = <<>>, !.current = 0], vis,
                                     Iterate(loaded.v), 0, <<>>, typed),
                      vis)

\* restore_layout
RestoreLayout(w, vis, typed) ==
    RestoreLoaded(w, vis, JsonLoads(StoredDashboards(w.db)), typed)

\* restore_layout when get_widget_setting raises on the read of the document:
\* the handler of the outer try (lines 566-575) prints, resizes, moves and
\* adds the default dashboard, and the call returns
RestoreUnreadable(w, vis) ==
    Outcome(AddDashboard(w, vis, <<>>), "unreadable", 0, <<>>)

----------------------------------------------------------------------------
(* Tabs, docks and title edits *)

RECURSIVE HideEvents(_, _)
\* TreeListWidget.hideEvent: every shown tree list that gets hidden saves
HideEvents(d, docks) ==
    IF docks = <<>> THEN d
    ELSE HideEvents(IF docks[1].cls = "TreeListWidget" /\ ~docks[1].hidden
                    THEN SaveState(docks[1].cls, d, docks[1].wid).db ELSE d,
                    Tail(docks))

Remove(seq, i) == SubSeq(seq, 1, i - 1) \o SubSeq(seq, i + 1, Len(seq))

\* QTabWidget.removeTab(index): when the current tab goes, the one to its
\* right takes its place, or the last one left
RemoveTab(w, vis, index) ==
    [w EXCEPT !.tabs = Remove(w.tabs, index),
              !.current = IF index < w.current THEN w.current - 1
                          ELSE IF index = w.current /\ w.current = Len(w.tabs)
                          THEN w.current - 1
                          ELSE w.current,
              !.db = IF vis /\ index = w.current
                     THEN HideEvents(w.db, w.tabs[index].docks)
                     ELSE w.db]

\* a close_tab without the test of the number of tabs
CloseTabAlways(w, vis, index) == RemoveTab(w, vis, index)

\* close_tab(index): the dict save_dashboard_layout returns is dropped
CloseTab(w, vis, index) ==
    IF Len(w.tabs) > 1 THEN RemoveTab(w, vis, index) ELSE w

\* the user selects another tab
SetCurrentIndex(w, vis, index) ==
    [w EXCEPT !.current = index,
              !.db = IF vis /\ index # w.current /\ w.current # 0
                     THEN HideEvents(w.db, w.tabs[w.current].docks) ELSE w.db]

\* a close that hides the dock whatever the answer
HandleDockCloseHiding(w, i, yes) ==
    [w EXCEPT !.tabs[w.current].docks[i].hidden = TRUE,
              !.db = HideEvents(w.db, <<w.tabs[w.current].docks[i]>>)]

\* _handle_dock_close on dock i of the current dashboard
HandleDockClose(w, i, yes) ==
    IF yes
    THEN [w EXCEPT !.tabs[w.current].docks = Remove(@, i),
                   !.db = HideEvents(w.db, <<w.tabs[w.current].docks[i]>>)]
    ELSE [w EXCEPT !.tabs[w.current].docks[i].hidden = TRUE,
                   !.db = HideEvents(w.db, <<w.tabs[w.current].docks[i]>>)]

\* _rename_tab(index) answered with new_name
RenameTab(w, index, new_name) ==
    SaveLayout([w EXCEPT !.tabs[index].title = new_name])

\* edit_title lines 536-546: "if old_widget_id != self.widget_id"
MoveCustomList(d, old_widget_id, widget) ==
    IF old_widget_id # widget.wid
    THEN DbSet(DbSet(SaveItems(SaveColumns(d, widget.wid, widget.st.columns),
                               widget.wid, widget.st.items),
                     old_widget_id, "columns", EmptyList),
               old_widget_id, "items", EmptyList)
    ELSE d

\* edit_title lines 525-546, widget being the widget after "self.widget_id = ..."
CustomListRetitled(w, i, new_title, old_widget_id, widget) ==
    [w EXCEPT !.tabs[w.current].docks[i].wid = widget.wid,
              !.tabs[w.current].docks[i].st = widget.st,
              !.tabs[w.current].docks[i].wtitle = new_title,
              !.db = MoveCustomList(DbSet(w.db, K_custom_list, "current_title",
                                          Text(new_title)),
                                    old_widget_id, widget)]

\* CustomListWidget.edit_title answered with new_title, on dock i of the
\* current dashboard
CustomListEditTitle(w, i, new_title) ==
    CustomListRetitled(w, i, new_title, w.tabs[w.current].docks[i].wid,
                       SetWidgetId("CustomListWidget", w.db,
                                   [wid |-> w.tabs[w.current].docks[i].wid,
                                    st |-> w.tabs[w.current].docks[i].st],
                                   JoinUnder(K_custom_list, Sanitize(new_title))))

\* edit_title lines 233-244 of the code viewer
MoveCodeViewer(d, old_widget_id, new_id, content, language) ==
    DbSet(DbSet(IF Truthy(language)
                THEN DbSet(IF Truthy(content) THEN DbSet(d, new_id, "content", content)
                           ELSE d,
                           new_id, "language", language)
                ELSE IF Truthy(content) THEN DbSet(d, new_id, "content", content) ELSE d,
                old_widget_id, "content", Text(<<>>)),
          old_widget_id, "language", Text(<<>>))

CodeViewerRetitled(w, i, old_widget_id, new_id) ==
    [w EXCEPT !.tabs[w.current].docks[i].wid = new_id,
              !.db = IF old_widget_id # new_id
                     THEN MoveCodeViewer(w.db, old_widget_id, new_id,
                                         DbGet(w.db, old_widget_id, "content", None),
                                         DbGet(w.db, old_widget_id, "language", None))
                     ELSE w.db]

\* CodeViewerWidget.edit_title answered with new_title
CodeViewerEditTitle(w, i, new_title) ==
    CodeViewerRetitled(w, i, w.tabs[w.current].docks[i].wid,
                       JoinUnder(K_code_viewer, Sanitize(new_title)))

\* CustomListWidget.add_column, add_item
AddColumn(w, i, col) ==
    [w EXCEPT !.tabs[w.current].docks[i].st.columns = Append(@, col),
              !.db = SaveColumns(w.db, w.tabs[w.current].docks[i].wid,
                                 Append(w.tabs[w.current].docks[i].st.columns, col))]

AddItem(w, i, item) ==
    [w EXCEPT !.tabs[w.current].docks[i].st.items = Append(@, item),
              !.db = SaveItems(w.db, w.tabs[w.current].docks[i].wid,
                               Append(w.tabs[w.current].docks[i].st.items, item))]

\* CodeViewerWidget.save_content (the user types) and change_language
SaveContent(w, i, content) ==
    [w EXCEPT !.tabs[w.current].docks[i].st.content = content,
              !.db = DbSet(w.db, w.tabs[w.current].docks[i].wid, "content", Text(content))]

ChangeLanguage(w, i, language) ==
    [w EXCEPT !.tabs[w.current].docks[i].st.language = language,
              !.db = DbSet(w.db, w.tabs[w.current].docks[i].wid, "language", Text(language))]

----------------------------------------------------------------------------
(* The run of main(): MainWindow.__init__ restores, window.show(), the     *)
(* user works, closeEvent saves, main saves again after app.exec().        *)

\* the window; events collects what restore_dashboard_layout does, in order
W == [tabs |-> tabs, current |-> current, db |-> db, events |-> <<>>]
Vis == phase = "running"

Install(w) == tabs' = w.tabs /\ current' = w.current /\ db' = w.db

Threads == {1, 2}

\* a thread outside every call of the DatabaseManager
Idle ==
    [pc |-> "idle", op |-> "none", widget_id |-> <<>>, key |-> "", value |-> None,
     row |-> <<>>, result |-> None, expect |-> None]

\* what the last restore_layout saw (branch, restored_count, ndocks, escaped),
\* the document the last save_layout replaced and the bytes saveState gave it
\* (prev, blobs), the number of save_layout calls since the last change of the
\* workspace (saves), whether nothing has changed since restore_layout
\* (pristine), and the last title edit (rename)
LogInit ==
    [branch |-> "none", restored_count |-> 0, ndocks |-> <<>>, escaped |-> FALSE,
     prev |-> None, blobs |-> <<>>, saves |-> 0, pristine |-> FALSE, rename |-> None,
     deleted |-> {}, raised |-> {}, events |-> <<>>, closed |-> None]

Init ==
    /\ phase = "start"
    /\ tabs = <<>>
    /\ current = 0
    /\ db = EmptyDb
    /\ session = 1
    /\ nops = 0
    /\ log = LogInit
    /\ lock = 0
    /\ thr = [t \in Threads |-> Idle]
    /\ kv = EmptyDb
    /\ reg = RegInit
    /\ ing = IngInit

Doc == DbGet(db, K_main_window, "dashboards", None)

Touched == [log EXCEPT !.saves = 0, !.pristine = FALSE, !.rename = None, !.closed = None]

Saved(w) ==
    [log EXCEPT !.prev = Doc,
                !.blobs = [i \in 1..Len(w.tabs) |-> QtSaveState(w.tabs[i].docks)],
                !.saves = @ + 1,
                !.raised = {}]

Restored(r) ==
    /\ Install(r.w)
    /\ log' = [log EXCEPT !.branch = r.branch, !.restored_count = r.restored_count,
                          !.ndocks = r.ndocks, !.escaped = r.escaped,
                          !.saves = 0, !.pristine = TRUE, !.deleted = {},
                          !.events = r.w.events, !.closed = None]

\* MainWindow.__init__ line 84: self.restore_layout(), the window not shown
StartUp ==
    /\ phase = "start"
    /\ \E typed \in BOOLEAN : Restored(RestoreLayout(W, FALSE, typed))
    /\ phase' = "constructed"
    /\ UNCHANGED <<session, nops, lock, thr, kv, reg, ing>>

\* main.py: window.show()
ShowWindow ==
    /\ phase = "constructed"
    /\ phase' = "running"
    /\ UNCHANGED <<tabs, current, db, session, nops, log, lock, thr, kv, reg, ing>>

UserOp(w) ==
    /\ Install(w)
    /\ nops' = nops + 1
    /\ log' = Touched
    /\ UNCHANGED <<phase, session, lock, thr, kv, reg, ing>>

CanAct == phase = "running" /\ nops < MaxOps

DashboardTitles == {<<>>, <<"Foo">>}

UserAddDashboard ==
    /\ CanAct
    /\ Len(tabs) < MaxTabs
    /\ \E typed \in DashboardTitles : UserOp(AddDashboard(W, Vis, typed))

\* the close button of tab index; log.closed holds the tab asked for
TabOp(w, index) ==
    /\ Install(w)
    /\ nops' = nops + 1
    /\ log' = [Touched EXCEPT !.closed = [t |-> "tab", i |-> index, yes |-> TRUE]]
    /\ UNCHANGED <<phase, session, lock, thr, kv, reg, ing>>

UserCloseTab ==
    /\ CanAct
    /\ \E index \in 1..Len(tabs) : TabOp(CloseTab(W, Vis, index), index)

UserSelectTab ==
    /\ CanAct
    /\ \E index \in 1..Len(tabs) : index # current /\ UserOp(SetCurrentIndex(W, Vis, index))

\* a Widgets menu entry: add_widget(widget_class, module_name, title)
UserAddWidget ==
    /\ CanAct
    /\ current # 0
    /\ Len(tabs[current].docks) < MaxDocks
    /\ \E k \in MenuKeys : \E typed \in BOOLEAN :
          /\ (k # K_web_view => typed)
          /\ UserOp(AddWidget(W, Vis, plugins[k].widget_class, k, plugins[k].title,
                              RightDockWidgetArea, typed).w)

\* the close button of a shown dock, answered Yes or No
\* deleting a dock is not counted in nops (it only takes docks away); a dock
\* deleted in this session leaves its widget id in log.deleted, and
\* log.closed holds the dock and the answer of the last close
CloseOp(w, gone, i, yes) ==
    /\ Install(w)
    /\ log' = [Touched EXCEPT !.deleted = log.deleted \cup gone,
                              !.closed = [t |-> "close", i |-> i, yes |-> yes]]
    /\ nops' = IF yes THEN nops ELSE nops + 1
    /\ UNCHANGED <<phase, session, lock, thr, kv, reg, ing>>

UserCloseDock ==
    /\ phase = "running"
    /\ current # 0
    /\ \E i \in 1..Len(tabs[current].docks) : \E yes \in BOOLEAN :
          /\ ~tabs[current].docks[i].hidden
          /\ yes \/ CanAct
          /\ CloseOp(HandleDockClose(W, i, yes),
                     IF yes THEN {tabs[current].docks[i].wid} ELSE {}, i, yes)

\* where the user may leave a dock: resized inside the dashboard, or floated
\* and dragged, possibly past the left edge of the screen
UserMoves ==
    {[geom |-> Geom(10, 20, 300, 200), floating |-> FALSE],
     [geom |-> Geom(10, 20, 300, 200), floating |-> TRUE],
     [geom |-> Geom(0 - 50, 20, 50, 200), floating |-> TRUE]}

\* the user floats, drags or resizes a dock
UserMoveDock ==
    /\ CanAct
    /\ current # 0
    /\ \E i \in 1..Len(tabs[current].docks) : \E m \in UserMoves :
          /\ ~tabs[current].docks[i].hidden
          /\ UserOp([W EXCEPT !.tabs[current].docks[i].geom = m.geom,
                              !.tabs[current].docks[i].floating = m.floating])

Renamed(w) ==
    /\ Install(w)
    /\ nops' = nops + 1
    /\ log' = [Saved(w) EXCEPT !.saves = 1, !.pristine = FALSE, !.closed = None]
    /\ UNCHANGED <<phase, session, lock, thr, kv, reg, ing>>

UserRenameTab ==
    /\ CanAct
    /\ \E index \in 1..Len(tabs) : Renamed(RenameTab(W, index, <<"Foo">>))

WidgetTitles == {<<"Foo">>, <<"Bar">>}

RenameKeys == {"columns", "items", "content", "language"}

\* the title edit of dock i: the ids before and after and what the store
\* held under the old id
Retitled(w, i) ==
    /\ Install(w)
    /\ nops' = nops + 1
    /\ log' = [Touched EXCEPT !.rename =
                  [t |-> "rename", cls |-> tabs[current].docks[i].cls,
                   old |-> tabs[current].docks[i].wid,
                   new |-> w.tabs[current].docks[i].wid,
                   before |-> [k \in RenameKeys |->
                                  DbGet(db, tabs[current].docks[i].wid, k, None)]]]
    /\ UNCHANGED <<phase, session, lock, thr, kv, reg, ing>>

UserEditTitle ==
    /\ CanAct
    /\ current # 0
    /\ \E i \in 1..Len(tabs[current].docks) : \E new_title \in WidgetTitles :
          /\ ~tabs[current].docks[i].hidden
          /\ \/ /\ tabs[current].docks[i].cls = "CustomListWidget"
                /\ Retitled(CustomListEditTitle(W, i, new_title), i)
             \/ /\ tabs[current].docks[i].cls = "CodeViewerWidget"
                /\ Retitled(CodeViewerEditTitle(W, i, new_title), i)

Closed(w) ==
    /\ Install([w EXCEPT !.db = IF current # 0 THEN HideEvents(w.db, tabs[current].docks)
                                ELSE w.db])
    /\ log' = Saved(w)

\* closeEvent: save_layout, then the window and all it shows is hidden
CloseEvent ==
    /\ phase = "running"
    /\ Closed(SaveLayout(W))
    /\ phase' = "closed"
    /\ UNCHANGED <<session, nops, lock, thr, kv, reg, ing>>

\* the docks of the workspace as pairs <<tab, dock>>
Positions == {p \in (1..Len(tabs)) \X (1..MaxDocks) : p[2] <= Len(tabs[p[1]].docks)}

ClosedRaising(w, raising) ==
    /\ Install([w EXCEPT !.db = IF current # 0 THEN HideEvents(w.db, tabs[current].docks)
                                ELSE w.db])
    /\ log' = [Saved(w) EXCEPT !.raised = raising]

\* closeEvent while a Qt call on some docks raises during save_layout
CloseEventRaising ==
    /\ phase = "running"
    /\ \E raising \in SUBSET Positions :
          raising # {} /\ ClosedRaising(SaveLayoutRaising(W, raising), raising)
    /\ phase' = "closed"
    /\ UNCHANGED <<session, nops, lock, thr, kv, reg, ing>>

\* closeEvent when save_layout meets an error outside the capture of a dock
CloseEventFailing ==
    /\ phase = "running"
    /\ \E n \in 0..Len(tabs) :
          /\ Install([SaveLayoutFailing(W, n) EXCEPT
                         !.db = IF current # 0 THEN HideEvents(@, tabs[current].docks)
                                ELSE @])
          /\ log' = [log EXCEPT !.closed = [t |-> "failed", i |-> n, yes |-> FALSE]]
    /\ phase' = "closed"
    /\ UNCHANGED <<session, nops, lock, thr, kv, reg, ing>>

Exited(w) == Install(w) /\ log' = Saved(w)

\* main.py line 37: window.save_layout() after app.exec() returns
ExitSave ==
    /\ phase = "closed"
    /\ Exited(SaveLayout(W))
    /\ phase' = "exited"
    /\ UNCHANGED <<session, nops, lock, thr, kv, reg, ing>>

\* the program is started again on the same database file
Restart ==
    /\ phase = "exited"
    /\ session < MaxSessions
    /\ session' = session + 1
    /\ phase' = "start"
    /\ tabs' = <<>>
    /\ current' = 0
    /\ UNCHANGED <<db, nops, log, lock, thr, kv, reg, ing>>

Next ==
    \/ StartUp
    \/ ShowWindow
    \/ UserAddDashboard
    \/ UserCloseTab
    \/ UserSelectTab
    \/ UserAddWidget
    \/ UserCloseDock
    \/ UserMoveDock
    \/ UserRenameTab
    \/ UserEditTitle
    \/ CloseEvent
    \/ ExitSave
    \/ Restart

Spec == Init /\ [][Next]_vars

----------------------------------------------------------------------------
(* Properties of the run of main() *)

\* the dashboard records of a stored document
Records(doc) == IF doc.t = "json" /\ doc.v.py = "list" THEN doc.v.items ELSE <<>>

\* the widget ids (module_name values) of a list of saved dashboard records
ModuleNames(records) ==
    UNION {{records[i].widgets.items[j].module_name :
               j \in 1..Len(records[i].widgets.items)} : i \in 1..Len(records)}

\* what the round trip is to keep: titles in order and, per dashboard, the
\* widget ids in order with their x, y, width and height
Observed(records) ==
    [i \in 1..Len(records) |->
        [title |-> records[i].title,
         widgets |-> [j \in 1..Len(records[i].widgets.items) |->
                         [module_name |-> records[i].widgets.items[j].module_name,
                          geometry |-> records[i].widgets.items[j].geometry]]]]

AllDocks == UNION {{<<t, i>> : i \in 1..Len(tabs[t].docks)} : t \in 1..Len(tabs)}

\* C3: round trip.  The workspace restore_layout builds from the document
\* save_layout wrote has the same dashboard titles in the same order and, in
\* each dashboard, the same widget ids in the same order with the same x, y,
\* width and height; and each docking-state hex string decodes to the bytes
\* saveState produced.
RoundTrip ==
    (phase = "constructed" /\ session > 1) =>
        /\ Observed(CaptureDashboards(tabs)) = Observed(Records(Doc))
        /\ \A i \in 1..Len(Records(Doc)) :
              Records(Doc)[i].state # <<>> =>
                  /\ ~FromHex(Records(Doc)[i].state).exc
                  /\ FromHex(Records(Doc)[i].state).bytes = log.blobs[i]

\* C4: idempotent save.  A save_layout call that follows another one with no
\* change of the workspace in between (closeEvent after a tab rename, main's
\* save after closeEvent) writes the document that was already stored.
IdempotentSave == log.saves >= 2 => log.prev = Doc

\* the double save at shutdown of a workspace that holds a widget
IdempotentSaveWitness ==
    /\ phase = "exited"
    /\ log.saves >= 2
    /\ \E p \in AllDocks : TRUE
    /\ log.prev = Doc

\* C5: id stability.  Restoring a saved document and saving again at once
\* (no user operation in between) stores the same set of widget ids.
IdStability ==
    (phase = "closed" /\ log.pristine /\ session > 1) =>
        ModuleNames(Records(Doc)) = ModuleNames(Records(log.prev))

\* C7: in a running workspace no two live widgets have the same widget id.
UniqueWidgetIds ==
    phase = "running" =>
        \A p, q \in AllDocks :
            p # q => tabs[p[1]].docks[p[2]].wid # tabs[q[1]].docks[q[2]].wid

----------------------------------------------------------------------------
(* restore_layout on an arbitrary stored document.  Before the program     *)
(* starts, the row ("main_window", "dashboards") may hold anything: these   *)
(* steps put a value there, piece by piece (records, then their widgets).  *)

DocKey == <<K_main_window, "dashboards">>

\* values that are no JSON list of records: SQL NULL, "", text that is not
\* JSON, a JSON number, {} or "", a non-empty JSON string or object, []
StoredValues ==
    {None, Text(<<>>), Text(<<"Foo">>), JsonDumps(PyScalar), JsonDumps(PyEmpty),
     JsonDumps(PyStr), EmptyList}

\* "state" strings: none, the bytes of a hidden clock dock, not hex, odd length
StoredStates == {<<>>, Hex(<<16, 9>>), <<"z", "z">>, <<"0">>}

Info(title, state) ==
    [py |-> "dict", title |-> title, state |-> state, widgets |-> PyList(<<>>)]

\* list entries: a non-dict, a dict whose "widgets" is a number, a dict with
\* no keys but "widgets", and dicts as save_layout writes them
StoredRecords ==
    {PyScalar, [py |-> "dict", widgets |-> PyScalar], [py |-> "dict", widgets |-> PyList(<<>>)]}
        \cup {Info(<<"Foo">>, st) : st \in StoredStates}

Instance(module_name, title, dock_name, geometry) ==
    [py |-> "dict", module_name |-> module_name, dock_name |-> dock_name, title |-> title,
     area |-> RightDockWidgetArea, floating |-> FALSE, visible |-> TRUE,
     geometry |-> geometry]

K_ghost == <<"ghost">>

\* "widgets" entries: a non-dict, dicts without or with an empty module_name,
\* a module_name no plugin is registered under, and entries of registered
\* kinds, with geometry in range, out of range, incomplete or absent
StoredInstances ==
    {PyScalar,
     [py |-> "dict", title |-> <<"Foo">>],
     [py |-> "dict", module_name |-> <<>>],
     [py |-> "dict", module_name |-> K_ghost],
     Instance(K_ghost, <<"Foo">>, <<"dock", "_", "ghost">>, Geom(10, 20, 300, 200)),
     Instance(K_clock, <<"Clock">>, <<"dock", "_", "clock">>, Geom(0 - 50, 20, 50, 5000)),
     [py |-> "dict", module_name |-> K_clock, geometry |-> [x |-> 10, y |-> 20]],
     Instance(JoinUnder(K_custom_list, <<"foo">>), <<"Foo">>,
              <<"dock", "_">> \o K_custom_list, Geom(10, 20, 300, 200)),
     Instance(JoinUnder(K_code_viewer, <<"foo">>), <<"Foo">>,
              <<"dock", "_">> \o K_code_viewer, Geom(10, 20, 300, 200)),
     Instance(K_web_view, <<"Web", " ", "View">>, <<"dock", "_">> \o K_web_view,
              Geom(10, 20, 300, 200)),
     Instance(K_calculator, <<"Calculator">>, <<"dock", "_">> \o K_calculator,
              Geom(10, 20, 300, 200)),
     Instance(<<"treelist", "_", "d0", "_", "1">>, <<"Tree", " ", "List">>,
              <<"dock", "_">> \o K_tree_list, Geom(10, 20, 300, 200)),
     Instance(K_treelist, <<"Tree", " ", "List">>, <<"dock", "_">> \o K_treelist,
              Geom(10, 20, 300, 200))}

RECURSIVE Sum(_)
Sum(seq) == IF seq = <<>> THEN 0 ELSE seq[1] + Sum(Tail(seq))

\* the widget entries of a record (none where "widgets" is no list)
Entries(record) ==
    IF IsDict(record) /\ "widgets" \in DOMAIN record /\ record.widgets.py = "list"
    THEN record.widgets.items ELSE <<>>

\* records plus widget entries of a stored list
DocSize(records) ==
    Len(records) + Sum([i \in 1..Len(records) |-> Len(Entries(records[i]))])

Installing == phase = "start" /\ session = 1

StoreValue ==
    /\ Installing
    /\ DocKey \notin DOMAIN db
    /\ \E v \in StoredValues : db' = DbSet(db, K_main_window, "dashboards", v)
    /\ UNCHANGED <<phase, tabs, current, session, nops, log, lock, thr, kv, reg, ing>>

StoreRecord ==
    /\ Installing
    /\ Doc.t = "json" /\ Doc.v.py = "list"
    /\ DocSize(Doc.v.items) < MaxDocSize
    /\ \E r \in StoredRecords :
          db' = DbSet(db, K_main_window, "dashboards",
                      JsonDumps(PyList(Append(Doc.v.items, r))))
    /\ UNCHANGED <<phase, tabs, current, session, nops, log, lock, thr, kv, reg, ing>>

StoreInstance ==
    /\ Installing
    /\ Doc.t = "json" /\ Doc.v.py = "list"
    /\ DocSize(Doc.v.items) < MaxDocSize
    /\ Doc.v.items # <<>>
    /\ IsDict(Doc.v.items[Len(Doc.v.items)])
    /\ Doc.v.items[Len(Doc.v.items)].widgets.py = "list"
    /\ \E inst \in StoredInstances :
          db' = DbSet(db, K_main_window, "dashboards",
                      JsonDumps(PyList([Doc.v.items EXCEPT
                                           ![Len(Doc.v.items)].widgets.items =
                                               Append(@, inst)])))
    /\ UNCHANGED <<phase, tabs, current, session, nops, log, lock, thr, kv, reg, ing>>

NextRestore ==
    \/ StoreValue
    \/ StoreRecord
    \/ StoreInstance
    \/ StartUp
    \/ ShowWindow

SpecRestore == Init /\ [][NextRestore]_vars

----------------------------------------------------------------------------
(* Widget ids given by add_widget *)

\* the classes whose descriptor has "supports_multiple": True
MultipleClasses == {"CodeViewerWidget", "CustomListWidget", "TreeListWidget", "WebViewWidget"}

\* the Widgets menu entry that adds widgets of a class
MenuKeyOf(cls) == CHOOSE k \in MenuKeys : plugins[k].widget_class = cls

\* a step that adds one dock to the current dashboard of the running window
AddWidgetStep ==
    /\ phase = "running" /\ phase' = "running"
    /\ current # 0 /\ current' = current
    /\ Len(tabs') = Len(tabs)
    /\ Len(tabs'[current].docks) = Len(tabs[current].docks) + 1

\* the id the allocation rule gives: the module name, followed by "_" and
\* the sanitized title for a kind that supports multiple instances
RuleId(module_name, cls, title) ==
    IF cls \in MultipleClasses THEN JoinUnder(module_name, Sanitize(title))
    ELSE module_name

AllocatedByRule(dock) == dock.wid = RuleId(MenuKeyOf(dock.cls), dock.cls, dock.title)

\* C13: the widget add_widget adds has the module name as its id when its
\* kind does not support multiple instances, and module name + "_" +
\* sanitize(title) when it does.
IdAllocation ==
    [][AddWidgetStep => AllocatedByRule(tabs'[current].docks[Len(tabs'[current].docks)])]_vars

\* C14: within one session, a widget added after a widget was deleted does
\* not get the deleted widget's id.
NoIdReuse ==
    [][AddWidgetStep =>
          tabs'[current].docks[Len(tabs'[current].docks)].wid \notin log.deleted]_vars

----------------------------------------------------------------------------
(* Properties of restore_layout *)

DefaultWorkspace == <<[title |-> <<"Dashboard", " ", "1">>, docks |-> <<>>]>>

\* C1: after restore_layout has returned, whatever the row ("main_window",
\* "dashboards") holds, there is at least one dashboard tab and the tab at
\* index 0 is the selected one.
RestoreLeavesTab == phase # "start" => Len(tabs) >= 1 /\ current = 1

\* a stored list none of whose entries could be restored
RestoreLeavesTabWitness ==
    /\ phase = "constructed"
    /\ Records(Doc) # <<>>
    /\ log.branch = "fallback"
    /\ Len(tabs) = 1 /\ current = 1

\* C2: at startup, with the row absent, holding text that is no JSON, or
\* holding the empty list, restore_layout leaves exactly one default
\* dashboard with no widget in it, and writes nothing to the store.
DefaultOnNoLayout ==
    (phase = "constructed"
        /\ (DocKey \notin DOMAIN db \/ Doc.t = "text" \/ Doc = EmptyList)) =>
        /\ tabs = DefaultWorkspace
        /\ current = 1
        /\ DOMAIN db \subseteq {DocKey}

\* the row held text that is no JSON
DefaultOnNoLayoutWitness ==
    /\ phase = "constructed"
    /\ Doc = Text(<<"Foo">>)
    /\ tabs = DefaultWorkspace

\* an entry whose module_name names no registered plugin
IsGhost(instance) ==
    /\ IsDict(instance)
    /\ Get(instance, "module_name", <<>>) # <<>>
    /\ BaseModule(instance.module_name) \notin DOMAIN plugins

HasGhost(record) == \E j \in 1..Len(Entries(record)) : IsGhost(Entries(record)[j])

\* the records restore_layout makes a tab for
IsRecord(record) == IsDict(record) /\ ~LenRaises(Get(record, "widgets", PyList(<<>>)))

ClassOf(instance) == plugins[BaseModule(instance.module_name)].widget_class

\* the widget classes of the entries of a record that name a plugin, in order
ExpectedClasses(record) ==
    [j \in 1..Len(SelectSeq(Entries(record), Resolves)) |->
        ClassOf(SelectSeq(Entries(record), Resolves)[j])]

\* C6: when some entry of the stored document names no registered plugin,
\* every other entry that names one still gets its widget, in its dashboard
\* and in order, in every dashboard; the number of widgets restored for the
\* record with the unknown entry is below its number of entries; and no
\* exception leaves restore_layout.
GracefulDegradation ==
    (phase = "constructed" /\ \E i \in 1..Len(Records(Doc)) : HasGhost(Records(Doc)[i])) =>
        /\ Len(tabs) = Len(SelectSeq(Records(Doc), IsRecord))
        /\ \A k \in 1..Len(tabs) :
              [i \in 1..Len(tabs[k].docks) |-> tabs[k].docks[i].cls]
                  = ExpectedClasses(SelectSeq(Records(Doc), IsRecord)[k])
        /\ \A i \in 1..Len(Records(Doc)) :
              HasGhost(Records(Doc)[i]) => log.ndocks[i] < Len(Entries(Records(Doc)[i]))
        /\ ~log.escaped

\* an unknown entry followed by a known one, which was restored
GracefulDegradationWitness ==
    /\ phase = "constructed"
    /\ \E i \in 1..Len(Records(Doc)) :
          /\ Len(Entries(Records(Doc)[i])) >= 2
          /\ IsGhost(Entries(Records(Doc)[i])[1])
          /\ Resolves(Entries(Records(Doc)[i])[2])
          /\ log.ndocks[i] >= 1
          /\ Len(tabs[i].docks) = 1

\* the records with entries of which none was restored
Unrestored ==
    {i \in 1..Len(Records(Doc)) :
        Entries(Records(Doc)[i]) # <<>> /\ log.ndocks[i] = 0}

\* C9: a record with a non-empty widgets list of which no widget was restored
\* is not counted as a restored dashboard, and when that leaves no restored
\* dashboard the workspace is a single default empty dashboard.
ZeroRestoredIsFailure ==
    (phase = "constructed" /\ Unrestored # {}) =>
        /\ log.restored_count <= Len(Records(Doc)) - Cardinality(Unrestored)
        /\ Cardinality(Unrestored) = Len(Records(Doc)) => tabs = DefaultWorkspace

----------------------------------------------------------------------------
(* Title edits: the user fills custom lists and code viewers and retitles  *)
(* them.                                                                    *)

\* filling a widget: these do not count as operations on the workspace
FillOp(w) ==
    /\ Install(w)
    /\ log' = Touched
    /\ UNCHANGED <<phase, session, nops, lock, thr, kv, reg, ing>>

\* the "Add Column" and "Add Item" buttons of a custom list
UserAddColumn ==
    /\ phase = "running"
    /\ current # 0
    /\ \E i \in 1..Len(tabs[current].docks) :
          /\ tabs[current].docks[i].cls = "CustomListWidget"
          /\ ~tabs[current].docks[i].hidden
          /\ Len(tabs[current].docks[i].st.columns) <= MaxFill
          /\ FillOp(AddColumn(W, i, "notes"))

UserAddItem ==
    /\ phase = "running"
    /\ current # 0
    /\ \E i \in 1..Len(tabs[current].docks) :
          /\ tabs[current].docks[i].cls = "CustomListWidget"
          /\ ~tabs[current].docks[i].hidden
          /\ Len(tabs[current].docks[i].st.items) < MaxFill
          /\ FillOp(AddItem(W, i, "milk"))

\* the user types in a code viewer, picks a language
UserSaveContent ==
    /\ phase = "running"
    /\ current # 0
    /\ \E i \in 1..Len(tabs[current].docks) :
          /\ tabs[current].docks[i].cls = "CodeViewerWidget"
          /\ ~tabs[current].docks[i].hidden
          /\ tabs[current].docks[i].st.content # <<"x">>
          /\ FillOp(SaveContent(W, i, <<"x">>))

UserChangeLanguage ==
    /\ phase = "running"
    /\ current # 0
    /\ \E i \in 1..Len(tabs[current].docks) : \E language \in Languages :
          /\ tabs[current].docks[i].cls = "CodeViewerWidget"
          /\ ~tabs[current].docks[i].hidden
          /\ tabs[current].docks[i].st.language # language
          /\ FillOp(ChangeLanguage(W, i, language))

NextRename ==
    \/ StartUp
    \/ ShowWindow
    \/ UserAddWidget
    \/ UserAddColumn
    \/ UserAddItem
    \/ UserSaveContent
    \/ UserChangeLanguage
    \/ UserEditTitle

SpecRename == Init /\ [][NextRename]_vars

\* C8: right after a title edit that changes the widget id, every value the
\* store held under the old id (columns and items of a custom list, content
\* and language of a code viewer) is held unchanged under the new id, and
\* the old id holds nothing.
RenameMigration ==
    (log.rename # None /\ log.rename.old # log.rename.new) =>
        \A k \in RenameKeys :
            /\ log.rename.before[k] # None =>
                  DbGet(db, log.rename.new, k, None) = log.rename.before[k]
            /\ DbGet(db, log.rename.old, k, None) = None

----------------------------------------------------------------------------
(* DatabaseManager called from several threads: each thread has its own    *)
(* connection (threading.local), every call runs inside "with self._lock". *)
(* lock is the owner of the RLock (0: free), thr the position of each      *)
(* thread in its call, kv the settings as the callers were told.           *)

DbScopes == {K_clock, K_calculator}
DbKeys == {"state", "title"}
DbValues == {Text(<<"x">>), Text(<<"y">>)}
DbDefaults == {None, Text(<<"d">>)}

Calling(t, op, widget_id, key, value) ==
    /\ thr[t].pc = "idle"
    /\ nops < MaxDbOps
    /\ thr' = [thr EXCEPT ![t] = [Idle EXCEPT !.pc = "wait", !.op = op,
                                              !.widget_id = widget_id, !.key = key,
                                              !.value = value]]
    /\ nops' = nops + 1
    /\ UNCHANGED <<phase, tabs, current, db, session, log, lock, kv, reg, ing>>

\* a thread calls set_widget_setting(widget_id, key, value)
CallSet ==
    \E t \in Threads : \E widget_id \in DbScopes : \E key \in DbKeys : \E value \in DbValues :
        Calling(t, "set", widget_id, key, value)

\* a thread calls get_widget_setting(widget_id, key, default)
CallGet ==
    \E t \in Threads : \E widget_id \in DbScopes : \E key \in DbKeys : \E default \in DbDefaults :
        Calling(t, "get", widget_id, key, default)

\* connection(): "with self._lock" is entered
Acquire ==
    \E t \in Threads :
        /\ thr[t].pc = "wait"
        /\ lock = 0
        /\ lock' = t
        /\ thr' = [thr EXCEPT ![t].pc = "locked"]
        /\ UNCHANGED <<phase, tabs, current, db, session, nops, log, kv, reg, ing>>

\* execute(): cursor.execute(query, params) on the thread's connection; the
\* write stays in the connection's transaction
Execute ==
    \E t \in Threads :
        /\ thr[t].pc = "locked" /\ thr[t].op = "set"
        /\ thr' = [thr EXCEPT ![t].pc = "executed"]
        /\ UNCHANGED <<phase, tabs, current, db, session, nops, log, lock, kv, reg, ing>>

\* execute(): conn.commit(); the caller's view of the settings changes in
\* the one pair it set
Commit ==
    \E t \in Threads :
        /\ thr[t].pc = "executed"
        /\ db' = DbSet(db, thr[t].widget_id, thr[t].key, thr[t].value)
        /\ kv' = (<<thr[t].widget_id, thr[t].key>> :> thr[t].value) @@ kv
        /\ thr' = [thr EXCEPT ![t].pc = "done"]
        /\ UNCHANGED <<phase, tabs, current, session, nops, log, lock, reg, ing>>

\* query_one(): cursor.execute, cursor.fetchone()
Fetch ==
    \E t \in Threads :
        /\ thr[t].pc = "locked" /\ thr[t].op = "get"
        /\ thr' = [thr EXCEPT ![t].pc = "done",
                              ![t].row = QueryOne(db, thr[t].widget_id, thr[t].key),
                              ![t].expect =
                                  IF <<thr[t].widget_id, thr[t].key>> \in DOMAIN kv
                                  THEN kv[<<thr[t].widget_id, thr[t].key>>]
                                  ELSE thr[t].value]
        /\ UNCHANGED <<phase, tabs, current, db, session, nops, log, lock, kv, reg, ing>>

\* the "with self._lock" block is left
Release ==
    \E t \in Threads :
        /\ thr[t].pc = "done"
        /\ lock = t
        /\ lock' = 0
        /\ thr' = [thr EXCEPT ![t].pc = "released"]
        /\ UNCHANGED <<phase, tabs, current, db, session, nops, log, kv, reg, ing>>

\* the call returns: "row[0] if row else default" for a get
Return ==
    \E t \in Threads :
        /\ thr[t].pc = "released"
        /\ thr' = [thr EXCEPT ![t].pc = "idle",
                              ![t].result = IF thr[t].op = "get"
                                            THEN RowOr(thr[t].row, thr[t].value)
                                            ELSE None]
        /\ UNCHANGED <<phase, tabs, current, db, session, nops, log, lock, kv, reg, ing>>

NextDb ==
    \/ CallSet
    \/ CallGet
    \/ Acquire
    \/ Execute
    \/ Commit
    \/ Fetch
    \/ Release
    \/ Return

SpecDb == Init /\ [][NextDb]_vars

\* C10: under every interleaving of set_widget_setting and
\* get_widget_setting calls from several threads, the stored settings are
\* exactly what the sets that have committed wrote, pair by pair (a set
\* changes no other pair, a value stays until the next set on its pair),
\* and every get that has returned gave the value last set on its pair, or
\* its default when the pair was never set.
KeyValueContract ==
    /\ db = kv
    /\ \A t \in Threads :
          (thr[t].pc = "idle" /\ thr[t].op = "get") => thr[t].result = thr[t].expect

\* a get has returned the value another thread set, a second pair is set,
\* and the other thread is inside the lock in its next set
KeyValueContractWitness ==
    \E t, u \in Threads :
        /\ t # u
        /\ thr[t].pc = "idle" /\ thr[t].op = "get"
        /\ thr[t].result \in DbValues
        /\ thr[u].pc = "executed" /\ lock = u
        /\ thr[u].widget_id # thr[t].widget_id /\ thr[u].key = thr[t].key

----------------------------------------------------------------------------
(* Properties of the plugin registry *)

NextRegistry ==
    \/ LoadPlugin
    \/ ClearMenu
    \/ LoadBuiltin
    \/ BuiltinDone
    \/ LoadCalculator
    \/ CalculatorsDone
    \/ LoadTreeList
    \/ TreeListsDone

SpecRegistry == Init /\ [][NextRegistry]_vars

\* C11: every descriptor a family registration returned is stored under its
\* declared module_name when it declares one, otherwise under its name
\* lower-cased with spaces replaced by underscores, in the registry the
\* single registrations use.
FamilyKeys ==
    \A i \in 1..Len(reg.family) :
        /\ reg.family[i].key = FamilyKey(reg.family[i].info)
        /\ reg.family[i].key \in DOMAIN reg.plugins
        /\ reg.plugins[reg.family[i].key] = reg.family[i].info

\* C12: a registration under a key that is already registered does not pass
\* unnoticed: load_plugins has raised or has printed that the key was
\* replaced.
DuplicateDetected ==
    \A k \in reg.overwritten :
        \/ reg.pc = "raised"
        \/ \E i \in 1..Len(reg.printed) :
              reg.printed[i].msg = "replaced" /\ reg.printed[i].name = k

----------------------------------------------------------------------------
(* Order of the docking state and the widgets in restore_dashboard_layout *)

\* the positions in log.events of the events of a kind in dashboard t
EventsOf(t, kind) ==
    {n \in 1..Len(log.events) : log.events[n].t = t /\ log.events[n].kind = kind}

\* C19: in the restore of one dashboard the docking state is applied at most
\* once, after every dock of the dashboard was created, and only if at least
\* one widget was restored and the record's state string is not empty.
StateAfterWidgets ==
    (phase = "constructed" /\ log.branch = "restored") =>
        \A t \in 1..Len(tabs) :
            /\ Cardinality(EventsOf(t, "state")) <= 1
            /\ \A n \in EventsOf(t, "state") :
                  /\ \A m \in EventsOf(t, "created") \cup EventsOf(t, "restored") : m < n
                  /\ EventsOf(t, "restored") # {}
                  /\ Get(SelectSeq(Records(Doc), IsRecord)[t], "state", <<>>) # <<>>

\* a dashboard restored with a widget and its docking state
StateAfterWidgetsWitness ==
    /\ phase = "constructed"
    /\ log.branch = "restored"
    /\ \E t \in 1..Len(tabs) :
          /\ EventsOf(t, "state") # {}
          /\ EventsOf(t, "created") # {}

----------------------------------------------------------------------------
(* The geometry restore_dashboard_layout applies *)

\* persisted coordinates and sizes: negative, zero, below, at, between, at
\* and above the limits
StoredXs == {0 - 50, 0 - 1, 0, 10}
StoredYs == {0 - 1, 0, 20}
StoredWidths == {0 - 5, 99, 100, 300, 2000, 2001, 5000}
StoredHeights == {0, 99, 100, 200, 1200, 1201, 5000}

\* a document of one dashboard with one clock whose geometry is geom
ClockAt(geom) ==
    JsonDumps(PyList(<<[py |-> "dict", title |-> <<"Foo">>, state |-> <<>>,
                        widgets |-> PyList(<<Instance(K_clock, <<"Clock">>,
                                                      <<"dock", "_">> \o K_clock, geom)>>)]>>))

StoreGeometry ==
    /\ Installing
    /\ DocKey \notin DOMAIN db
    /\ \E x \in StoredXs, y \in StoredYs, width \in StoredWidths, height \in StoredHeights :
          db' = DbSet(db, K_main_window, "dashboards", ClockAt(Geom(x, y, width, height)))
    /\ UNCHANGED <<phase, tabs, current, session, nops, log, lock, thr, kv, reg, ing>>

NextGeometry ==
    \/ StoreGeometry
    \/ StartUp
    \/ ShowWindow

SpecGeometry == Init /\ [][NextGeometry]_vars

\* the geometry entry of the only widget of the stored document
StoredGeometry == Records(Doc)[1].widgets.items[1].geometry

\* x and y not below 0, width within [100, 2000], height within [100, 1200]
InRange(geom) ==
    /\ geom.x >= 0 /\ geom.y >= 0
    /\ geom.width >= 100 /\ geom.width <= 2000
    /\ geom.height >= 100 /\ geom.height <= 1200

\* C20: the geometry applied to a restored widget is the stored one with x
\* and y raised to 0, the width brought into [100, 2000] and the height into
\* [100, 1200]; it is in range, a stored geometry in range is applied
\* unchanged, and clamping the applied geometry again changes nothing.
GeometryClamp ==
    (phase = "constructed" /\ log.branch = "restored") =>
        /\ tabs[1].docks[1].geom.x = (IF StoredGeometry.x < 0 THEN 0 ELSE StoredGeometry.x)
        /\ tabs[1].docks[1].geom.y = (IF StoredGeometry.y < 0 THEN 0 ELSE StoredGeometry.y)
        /\ tabs[1].docks[1].geom.width =
              (IF StoredGeometry.width < 100 THEN 100
               ELSE IF StoredGeometry.width > 2000 THEN 2000 ELSE StoredGeometry.width)
        /\ tabs[1].docks[1].geom.height =
              (IF StoredGeometry.height < 100 THEN 100
               ELSE IF StoredGeometry.height > 1200 THEN 1200 ELSE StoredGeometry.height)
        /\ InRange(tabs[1].docks[1].geom)
        /\ InRange(StoredGeometry) => tabs[1].docks[1].geom = StoredGeometry
        /\ NormalizeGeometry(tabs[1].docks[1].geom) = tabs[1].docks[1].geom

\* a clock stored 5000 wide and left of the screen is restored 2000 wide at 0
GeometryClampWitness ==
    /\ phase = "constructed"
    /\ log.branch = "restored"
    /\ StoredGeometry.width = 5000 /\ StoredGeometry.x < 0
    /\ tabs[1].docks[1].geom.width = 2000 /\ tabs[1].docks[1].geom.x = 0

----------------------------------------------------------------------------
(* restore_layout on a window that has tabs *)

\* restore_layout called once more, on the window the first call left (main
\* calls it once, from __init__; the tabs of the first call are the
\* pre-existing tabs of the second)
RestoreAgain ==
    /\ phase = "constructed"
    /\ \E typed \in BOOLEAN : Restored(RestoreLayout(W, FALSE, typed))
    /\ phase' = "again"
    /\ UNCHANGED <<session, nops, lock, thr, kv, reg, ing>>

NextAgain == NextRestore \/ RestoreAgain

SpecAgain == Init /\ [][NextAgain]_vars

\* the titles of the records restore_layout makes a tab for, in stored order
RestoredTitles ==
    [i \in 1..Len(SelectSeq(Records(Doc), IsRecord)) |->
        Get(SelectSeq(Records(Doc), IsRecord)[i], "title", <<"Dashboard">>)]

\* C18: after restore_layout on a document of which at least one record was
\* restored, the tabs are exactly the restored records in stored order, the
\* i-th tab with the title of the i-th restored record, whether or not the
\* window had tabs before the call.
RestoreOrder ==
    (phase \in {"constructed", "again"} /\ log.branch = "restored") =>
        [i \in 1..Len(tabs) |-> tabs[i].title] = RestoredTitles

\* a second restore of two records with different titles on a window that
\* had the tabs of the first
RestoreOrderWitness ==
    /\ phase = "again"
    /\ log.branch = "restored"
    /\ Len(tabs) = 2
    /\ tabs[1].title # tabs[2].title

----------------------------------------------------------------------------
(* restore_layout when the store cannot be read *)

\* MainWindow.__init__ line 84 while the store raises on every read
StartUpUnreadable ==
    /\ phase = "start"
    /\ Restored(RestoreUnreadable(W, FALSE))
    /\ phase' = "constructed"
    /\ UNCHANGED <<session, nops, lock, thr, kv, reg, ing>>

NextUnreadable == NextRestore \/ StartUpUnreadable

SpecUnreadable == Init /\ [][NextUnreadable]_vars

\* C16: when the store raises while restore_layout reads the workspace
\* document, the exception leaves restore_layout and reaches its caller.
StoreFailureFatal == log.branch = "unreadable" => log.escaped

----------------------------------------------------------------------------
(* Properties of save_layout when the capture of a dock raises *)

\* one run of main() in which a save may meet docks whose capture raises
NextSave ==
    \/ StartUp
    \/ ShowWindow
    \/ UserAddDashboard
    \/ UserCloseTab
    \/ UserSelectTab
    \/ UserAddWidget
    \/ UserCloseDock
    \/ UserMoveDock
    \/ UserRenameTab
    \/ UserEditTitle
    \/ CloseEvent
    \/ CloseEventRaising
    \/ ExitSave

SpecSave == Init /\ [][NextSave]_vars

\* the positions of the docks of tab i whose capture did not raise
KeptIn(i) == {j \in 1..Len(tabs[i].docks) : <<i, j>> \notin log.raised}

\* the k-th of them
KeptAt(i, k) == CHOOSE j \in KeptIn(i) : Cardinality({m \in KeptIn(i) : m <= j}) = k

\* what the record of tab i has to list: the docks that did not raise, in order
KeptInfos(i) == [k \in 1..Cardinality(KeptIn(i)) |-> WidgetInfo(tabs[i].docks[KeptAt(i, k)])]

\* C15: when the capture of some docks raises during save_layout, the window
\* still gets closed with a document written that has one record per
\* dashboard, each with its title and with exactly the widgets whose capture
\* did not raise, in order
BestEffortSave ==
    (phase = "closed" /\ log.raised # {}) =>
        /\ Doc # None
        /\ Len(Records(Doc)) = Len(tabs)
        /\ \A i \in 1..Len(tabs) :
              /\ Records(Doc)[i].title = tabs[i].title
              /\ Records(Doc)[i].widgets.items = KeptInfos(i)

\* a save during which one dock of a dashboard of two raised and the other
\* one is in the document
BestEffortSaveWitness ==
    /\ phase = "closed"
    /\ Cardinality(log.raised) = 1
    /\ \E p \in log.raised :
          /\ Len(tabs[p[1]].docks) = 2
          /\ Len(Records(Doc)[p[1]].widgets.items) = 1

----------------------------------------------------------------------------
(* Properties of the delivery of ingestion results *)

NextIngest ==
    \/ IngAddWidget
    \/ IngRefresh
    \/ IngTake
    \/ IngFetched
    \/ IngDeliver
    \/ IngCloseTab
    \/ IngDeleteDock
    \/ IngStop

SpecIngest == Init /\ [][NextIngest]_vars

\* a step that closes a dashboard or the whole workspace
ClosingStep == ing'.open_tabs # ing.open_tabs \/ (ing.running /\ ~ing'.running)

\* C17: closing a dashboard or the workspace leaves the queued and the
\* in-flight requests as they are, and no step changes what a table shows
\* unless the table is in a dashboard of the workspace.
LiveDelivery ==
    [][/\ ClosingStep => /\ ing'.task_queue = ing.task_queue
                         /\ ing'.fetching = ing.fetching
                         /\ ing'.active_tasks = ing.active_tasks
       /\ \A w \in Tables : ing.status[w] # "open" => ing'.shown[w] = ing.shown[w]]_vars

----------------------------------------------------------------------------
(* Visibility of the restored docks *)

----------------------------------------------------------------------------
(* Entries whose construction fails *)

\* C22: an entry whose widget could not be constructed leaves no dock: when
\* restore_layout has returned, each restored dashboard holds exactly the
\* docks of the entries that were restored, and nothing was raised.
FailedLeavesNoDock ==
    (phase = "constructed" /\ log.branch = "restored") =>
        /\ ~log.escaped
        /\ \A t \in 1..Len(tabs) :
              Len(tabs[t].docks) = Cardinality(EventsOf(t, "restored"))

----------------------------------------------------------------------------
(* Closing a dock *)

\* a step in which the close button of a dock was answered
ClosingDock ==
    /\ phase = "running" /\ phase' = "running"
    /\ log'.closed.t = "close"
    /\ tabs' # tabs

\* the widget entries a save of the dashboard would write
Captured(dashboard) == SaveDashboardLayout(dashboard).widgets.items

DeclinedWitness ==
    /\ phase = "closed"
    /\ log.closed.t = "close"
    /\ ~log.closed.yes
    /\ tabs[current].docks[log.closed.i].hidden
    /\ Len(Records(Doc)[current].widgets.items) = Len(tabs[current].docks)

----------------------------------------------------------------------------
(* The tab widget is never left empty *)

\* a step in which close_tab ran
ClosingTab ==
    /\ phase = "running" /\ phase' = "running"
    /\ log'.closed.t = "tab"
    /\ nops' = nops + 1

\* C24: once the window is constructed the tab widget holds at least one
\* dashboard; close_tab on the only tab removes nothing and close_tab with
\* more than one tab removes exactly the tab asked for.
KeepsOneDashboard ==
    [][/\ phase' \in {"constructed", "running", "closed", "exited"} => Len(tabs') >= 1
       /\ ClosingTab => tabs' = (IF Len(tabs) = 1 THEN tabs
                                 ELSE Remove(tabs, log'.closed.i))]_vars

\* close_tab on the only tab of the default workspace, as the first thing the
\* user does: the tab is still there
KeepsOneDashboardWitness ==
    /\ phase = "running"
    /\ log.closed.t = "tab"
    /\ nops = 1
    /\ Len(tabs) = 1

----------------------------------------------------------------------------
(* The ingest calls beside the worker thread *)

NextQueue ==
    \/ QCall
    \/ QPut
    \/ QMark
    \/ IngTake
    \/ IngFetched

SpecQueue == Init /\ [][NextQueue]_vars

\* the number of tasks of a source that are queued or being processed
TasksOf(r, source_id) ==
    Cardinality({n \in 1..Len(r.task_queue) : r.task_queue[n] = source_id})
        + (IF r.fetching = source_id THEN 1 ELSE 0)

\* C25: a source_id is in active_tasks only while a task of it is queued or
\* being processed: once the worker has finished the task, the source_id is
\* out of active_tasks and a later call for it is accepted.
NoStaleActive ==
    \A source_id \in ing.active_tasks : TasksOf(ing, source_id) >= 1

\* C26: a call for a source_id that is in active_tasks returns False and
\* leaves the task queue and active_tasks as they are; any other call puts
\* exactly one task, records the source_id in active_tasks and returns True;
\* and never is more than one task of a source_id queued or being processed.
EnqueueContract ==
    [][/\ \A w \in Tables : TasksOf(ing', SourceId(w)) <= 1
       /\ (ing'.call # ing.call /\ ing'.call.returned = "False") =>
             /\ ing'.call.source_id \in ing.active_tasks
             /\ ing'.task_queue = ing.task_queue
             /\ ing'.active_tasks = ing.active_tasks
       /\ (ing'.call # ing.call /\ ing'.call.returned = "True") =>
             /\ ing'.call.puts = 1
             /\ ing'.call.source_id \in ing'.active_tasks]_vars

\* a call returned False for a source whose task is being processed, after
\* the call that queued that task returned True
EnqueueContractWitness ==
    /\ ing.call.returned = "False"
    /\ ing.fetching = ing.call.source_id
    /\ ing.requests = 1

----------------------------------------------------------------------------
(* _fetch_with_retry *)

NextFetch ==
    \/ FetchCall
    \/ FetchLoop
    \/ FetchRequest
    \/ FetchSleep

SpecFetch == Init /\ [][NextFetch]_vars

\* C27: a call of _fetch_with_retry that sends requests has sent at most
\* max_retries of them; when it returns a response, every attempt before the
\* last raised; when it returns None, max_retries attempts were made and all
\* raised; and it has slept backoff_factor ** k after the k-th failed attempt,
\* except after the last attempt.
BoundedRetry ==
    /\ ing.retry.attempts <= ing.retry.max_retries
    /\ Len(ing.retry.waits) <= ing.retry.attempts
    /\ (ing.retry.pc = "done" /\ ing.retry.method \in Methods) =>
          /\ ing.retry.result \in {"response", "None"}
          /\ ing.retry.result = "response" => ing.retry.attempts = ing.retry.retry_count + 1
          /\ ing.retry.result = "None" =>
                /\ ing.retry.attempts = ing.retry.max_retries
                /\ ing.retry.retry_count = ing.retry.max_retries
          /\ ing.retry.waits =
                [k \in 1..(IF ing.retry.attempts = 0 THEN 0 ELSE ing.retry.attempts - 1) |->
                    Backoff(ing.retry.backoff_factor, k)]

\* three attempts with the default factor all raised: None is returned after
\* sleeps of 1.5 and 2.25
BoundedRetryWitness ==
    /\ ing.retry.pc = "done"
    /\ ing.retry.result = "None"
    /\ ing.retry.attempts = 3
    /\ ing.retry.waits = <<<<3, 2>>, <<9, 4>>>>

----------------------------------------------------------------------------
(* Dock object names *)

\* the name the rule gives for a base name: the base name when no dock of
\* the dashboard has it, else the base name with the least k >= 1 no dock has
FirstFree(existing, base_name) ==
    IF base_name \notin existing THEN base_name
    ELSE JoinUnder(base_name,
                   <<NumTok(CHOOSE k \in 1..(Cardinality(existing) + 1) :
                        /\ JoinUnder(base_name, <<NumTok(k)>>) \notin existing
                        /\ \A j \in 1..(k - 1) :
                              JoinUnder(base_name, <<NumTok(j)>>) \in existing)>>)

DistinctNames(dashboard) == Cardinality(DockNames(dashboard)) = Len(dashboard.docks)

\* C28: the object names of the docks of one dashboard are pairwise
\* distinct, and the dock add_widget adds is named dock_<name> when no dock of
\* the dashboard has that name, else the first dock_<name>_<k>, k = 1, 2, ...,
\* that no dock of the dashboard has.
UniqueDockNames ==
    [][/\ \A t \in 1..Len(tabs') : DistinctNames(tabs'[t])
       /\ AddWidgetStep =>
             tabs'[current].docks[Len(tabs'[current].docks)].name =
                FirstFree(DockNames(tabs[current]),
                          <<"dock", "_">> \o
                             MenuKeyOf(tabs'[current].docks[Len(tabs'[current].docks)].cls))]_vars

\* a second dock of a kind took the suffix _1 beside the first one
UniqueDockNamesWitness ==
    /\ phase = "running"
    /\ current # 0
    /\ \E i, j \in 1..Len(tabs[current].docks) :
          /\ i < j
          /\ tabs[current].docks[i].cls = tabs[current].docks[j].cls
          /\ tabs[current].docks[j].name = JoinUnder(tabs[current].docks[i].name, <<"1">>)

----------------------------------------------------------------------------
(* The tab a restored widget is attached to *)

RECURSIVE IsSubSeq(_, _)
\* a is b with some elements left out
IsSubSeq(a, b) ==
    IF a = <<>> THEN TRUE
    ELSE IF b = <<>> THEN FALSE
    ELSE IF a[1] = b[1] THEN IsSubSeq(Tail(a), Tail(b))
    ELSE IsSubSeq(a, Tail(b))

\* the position in the stored list of the record the k-th tab was made for
RecordOfTab(k) ==
    CHOOSE i \in 1..Len(Records(Doc)) :
        /\ IsRecord(Records(Doc)[i])
        /\ Cardinality({j \in 1..i : IsRecord(Records(Doc)[j])}) = k

ClassesIn(dashboard) == [i \in 1..Len(dashboard.docks) |-> dashboard.docks[i].cls]

IsCall(e) == e.kind \in {"entered", "left"}

\* the tab current before and after each call of restore_dashboard_layout
Calls == SelectSeq(log.events, IsCall)

\* C29: after restore_layout, the k-th tab holds widgets of the entries of
\* the record it was made for only, in their order, and at least as many as
\* restore_dashboard_layout restored for that record; and each call of
\* restore_dashboard_layout returned with the tab current that was current
\* when it was called.
RestoredInPlace ==
    (phase = "constructed" /\ log.branch = "restored") =>
        /\ Len(tabs) = Len(SelectSeq(Records(Doc), IsRecord))
        /\ \A k \in 1..Len(tabs) :
              /\ IsSubSeq(ClassesIn(tabs[k]), ExpectedClasses(Records(Doc)[RecordOfTab(k)]))
              /\ Len(tabs[k].docks) >= log.ndocks[RecordOfTab(k)]
        /\ Len(Calls) = 2 * Len(tabs)
        /\ \A k \in 1..Len(tabs) :
              /\ Calls[2 * k - 1].kind = "entered"
              /\ Calls[2 * k].kind = "left"
              /\ Calls[2 * k].t = Calls[2 * k - 1].t

\* the widget of the second record was added by add_widget while the first
\* tab was current before the call: it is in the second tab, and the first
\* tab is current again
RestoredInPlaceWitness ==
    /\ phase = "constructed"
    /\ log.branch = "restored"
    /\ Len(tabs) = 2
    /\ tabs[1].docks = <<>>
    /\ Len(tabs[2].docks) = 1
    /\ tabs[2].docks[1].cls = "ClockWidget"
    /\ log.ndocks = <<0, 1>>
    /\ Calls[3].t = 1
    /\ Calls[4].t = 1

----------------------------------------------------------------------------
(* save_layout when an error leaves its body *)

NextFailing ==
    \/ StartUp
    \/ ShowWindow
    \/ UserAddDashboard
    \/ UserCloseTab
    \/ UserSelectTab
    \/ UserAddWidget
    \/ UserCloseDock
    \/ UserMoveDock
    \/ UserRenameTab
    \/ UserEditTitle
    \/ CloseEvent
    \/ CloseEventFailing
    \/ ExitSave
    \/ Restart

SpecFailing == Init /\ [][NextFailing]_vars

\* a closeEvent whose save_layout met an error
FailedSave == phase = "running" /\ log'.closed.t = "failed"

====
